---- MODULE Spec2Model ----
(***************************************************************************)
(* A model of the docstring-to-signature cross-validator of                *)
(* StandardCheck.py (class CodeChecker).                                   *)
(*                                                                         *)
(* Python strings are sequences of one-character strings, so that split,   *)
(* replace, strip and the substring test are computed as Python computes    *)
(* them.  Syntax-tree nodes are records tagged by the field t.  A finding   *)
(* (an element of self.errors) is a record: kind names the message         *)
(* template of the source line that appends it, the other fields are the   *)
(* values the template interpolates.                                       *)
(***************************************************************************)
EXTENDS Integers, Sequences, FiniteSets

VARIABLES
    pc,          \* position of the modelled call: "call", "loop", "done"
    errors,      \* self.errors
    raised,      \* an exception has propagated out of the modelled call
    node,        \* the ast.FunctionDef / ast.ClassDef being checked
    endColOfArg, \* _getArgDefault: parameter endColOfArg
    endRowOfArg, \* _getArgDefault: parameter endRowOfArg
    result,      \* the value the modelled call returned
    section,           \* _parseArgLines: parameter section
    splitArgsSection,  \* _parseArgLines: local splitArgsSection
    index,             \* _parseArgLines: local index (0-based, as in the source)
    argLines,          \* _parseArgLines: local argLines
    definition,           \* _verifySections: parameter definition
    correspondingDefault, \* _verifySections: parameter correspondingDefault
    argName,              \* _verifySections: parameter argName
    sectionSplit,         \* _verifySections: local sectionSplit
    sectionIdx,           \* _verifySections: 1-based position of the for loop
    foundDefault,         \* _verifySections: local foundDefault
    lineIdx,              \* _verifyArgLines: 1-based position of the for loop
    docArgs,              \* _verifyArgLines: local docArgs
    docstring,            \* verifyDocstring: ast.get_docstring(node), <<>> if none
    splitDocstring,       \* verifyDocstring: local splitDocstring
    i,                    \* verifyDocstring: loop variable i (0-based block index)
    argSectionFound,      \* verifyDocstring: local argSectionFound
    returnSectionFound,   \* verifyDocstring: local returnSectionFound
    annotationArg,        \* _getDefinedType: the argument passed as annotation
    tree,                 \* checkFile: the nodes of the parsed file, in visit order
    ignoreFile,           \* the lines of the file .standardignore
    itemsToIgnore,        \* CodeChecker: self.itemsToIgnore
    visitIdx,             \* checkFile: 1-based position of the visit in tree
    run,                  \* which call of checkFile on the file this is
    firstResult,          \* the value the first call of checkFile returned
    class_problems,       \* check_file: local class_problems, Unbound until assigned
    fileProblems,         \* check_file: local fileProblems
    bodyIdx               \* check_file: 1-based position of the running loop

varsCall == <<pc, errors, raised, node, result>>
varsArgDefault == <<endColOfArg, endRowOfArg>>
varsParse == <<section, splitArgsSection, index, argLines>>
varsSections ==
    <<definition, correspondingDefault, argName, sectionSplit, sectionIdx, foundDefault>>
varsArgLines == <<lineIdx, docArgs>>
varsDocstring == <<docstring, splitDocstring, i, argSectionFound, returnSectionFound>>
varsType == <<annotationArg>>
varsFile == <<tree, ignoreFile, itemsToIgnore, visitIdx, run, firstResult>>
varsRepl == <<class_problems, fileProblems, bodyIdx>>
varsLater == <<varsType, varsFile, varsRepl>>
vars ==
    <<varsCall, varsArgDefault, varsParse, varsSections, varsArgLines, varsDocstring,
      varsLater>>

\* the variables of a call that the checked specification does not make
IdleArgDefault == endColOfArg = -1 /\ endRowOfArg = -1
IdleParse == section = <<>> /\ splitArgsSection = <<>> /\ index = 0 /\ argLines = <<>>
IdleSections ==
    /\ definition = <<>>
    /\ correspondingDefault = [t |-> "None"]
    /\ argName = <<>>
    /\ sectionSplit = <<>>
    /\ sectionIdx = 0
    /\ foundDefault = FALSE

IdleArgLines == lineIdx = 0 /\ docArgs = <<>>

IdleDocstring ==
    /\ docstring = <<>>
    /\ splitDocstring = <<>>
    /\ i = 0
    /\ argSectionFound = FALSE
    /\ returnSectionFound = FALSE

IdleType == annotationArg = [t |-> "None"]
IdleFile ==
    /\ tree = <<>>
    /\ ignoreFile = <<>>
    /\ itemsToIgnore = <<>>
    /\ visitIdx = 0
    /\ run = 0
    /\ firstResult = [t |-> "None"]
IdleRepl ==
    /\ class_problems = [t |-> "Unbound"]
    /\ fileProblems = <<>>
    /\ bodyIdx = 0
IdleLater == IdleType /\ IdleFile /\ IdleRepl

\* per specification: the variables of the other calls, which stay idle
OutsideArgDefault == <<varsParse, varsSections, varsArgLines, varsDocstring, varsLater>>
IdleOutsideArgDefault ==
    IdleParse /\ IdleSections /\ IdleArgLines /\ IdleDocstring /\ IdleLater
OutsideParse == <<varsArgDefault, varsSections, varsArgLines, varsDocstring, varsLater>>
IdleOutsideParse ==
    IdleArgDefault /\ IdleSections /\ IdleArgLines /\ IdleDocstring /\ IdleLater
OutsideSections == <<varsArgDefault, varsParse, varsArgLines, varsDocstring, varsLater>>
IdleOutsideSections ==
    IdleArgDefault /\ IdleParse /\ IdleArgLines /\ IdleDocstring /\ IdleLater
\* _verifyArgLines takes argLines as its parameter
OutsideArgLines ==
    <<varsArgDefault, section, splitArgsSection, index, varsSections, varsDocstring,
      varsLater>>
IdleOutsideArgLines ==
    /\ IdleArgDefault
    /\ section = <<>> /\ splitArgsSection = <<>> /\ index = 0
    /\ IdleSections
    /\ IdleDocstring
    /\ IdleLater
OutsideDocstring == <<varsArgDefault, varsParse, varsSections, varsArgLines, varsLater>>
IdleOutsideDocstring ==
    IdleArgDefault /\ IdleParse /\ IdleSections /\ IdleArgLines /\ IdleLater

-----------------------------------------------------------------------------
(* Python str operations on sequences of characters *)

\* s[a:b] with 1-based inclusive bounds
Slice(s, a, b) == IF a > b THEN <<>> ELSE SubSeq(s, a, b)

\* s.startswith(sub) at position k (1-based)
MatchAt(s, sub, k) ==
    /\ k >= 1
    /\ k + Len(sub) - 1 <= Len(s)
    /\ \A j \in 1..Len(sub) : s[k + j - 1] = sub[j]

\* s.find(sub, k): the first position >= k where sub occurs, 0 if none
RECURSIVE FindFrom(_, _, _)
FindFrom(s, sub, k) ==
    IF k + Len(sub) - 1 > Len(s) THEN 0
    ELSE IF MatchAt(s, sub, k) THEN k
    ELSE FindFrom(s, sub, k + 1)

\* sub in s
Contains(s, sub) == FindFrom(s, sub, 1) # 0

\* s.split(sep), sep non-empty
RECURSIVE Split(_, _)
Split(s, sep) ==
    LET k == FindFrom(s, sep, 1)
    IN  IF k = 0 THEN <<s>>
        ELSE <<Slice(s, 1, k - 1)>> \o Split(Slice(s, k + Len(sep), Len(s)), sep)

\* s.replace(old, new), old non-empty
RECURSIVE Replace(_, _, _)
Replace(s, old, new) ==
    LET k == FindFrom(s, old, 1)
    IN  IF k = 0 THEN s
        ELSE Slice(s, 1, k - 1) \o new \o Replace(Slice(s, k + Len(old), Len(s)), old, new)

Whitespace == {" ", "\n", "\t"}

RECURSIVE LStrip(_)
LStrip(s) == IF s # <<>> /\ Head(s) \in Whitespace THEN LStrip(Tail(s)) ELSE s

RECURSIVE RStrip(_)
RStrip(s) ==
    IF s # <<>> /\ s[Len(s)] \in Whitespace THEN RStrip(Slice(s, 1, Len(s) - 1)) ELSE s

\* s.strip()
Strip(s) == RStrip(LStrip(s))

\* s.endswith(sub)
EndsWith(s, sub) == Len(sub) <= Len(s) /\ MatchAt(s, sub, Len(s) - Len(sub) + 1)

\* sep.join(parts)
RECURSIVE Join(_, _)
Join(parts, sep) ==
    IF parts = <<>> THEN <<>>
    ELSE IF Len(parts) = 1 THEN parts[1]
    ELSE parts[1] \o sep \o Join(Tail(parts), sep)

\* while "  " in section: section = section.replace("  ", " ")
RECURSIVE CollapseSpaces(_)
CollapseSpaces(s) ==
    IF Contains(s, <<" ", " ">>) THEN CollapseSpaces(Replace(s, <<" ", " ">>, <<" ">>))
    ELSE s

-----------------------------------------------------------------------------
(* Syntax-tree values *)

\* Python None, where an expression node or a result is expected
None == [t |-> "None"]

\* ast.Constant default at a source position (value is a Python value)
ConstantAt(value, col, line) ==
    [t |-> "Constant", value |-> value, col_offset |-> col, end_lineno |-> line]

PyInt(n) == [ty |-> "int", n |-> n]

-----------------------------------------------------------------------------
(* CodeChecker._getArgDefault *)

\* the loop "for default in defaults" from position k on
RECURSIVE ArgDefaultLoop(_, _, _, _)
ArgDefaultLoop(defaults, k, endCol, endRow) ==
    IF k > Len(defaults) THEN None
    ELSE LET default == defaults[k]
             defaultBegCol == default.col_offset
             defaultEndRow == default.end_lineno
             difference == defaultBegCol - endCol
         IN  IF (difference = 1 \/ difference = 3) /\ endRow = defaultEndRow
             THEN default
             ELSE ArgDefaultLoop(defaults, k + 1, endCol, endRow)

\* a slip in the adjacency test: the spaced form is taken to be 2 columns away
ArgDefaultOffByOne(n, endCol, endRow) ==
    IF endCol = -1 THEN None
    ELSE LET hit == {k \in 1..Len(n.defaults) :
                        /\ n.defaults[k].col_offset - endCol \in {1, 2}
                        /\ n.defaults[k].end_lineno = endRow}
         IN  IF hit = {} THEN None
             ELSE n.defaults[CHOOSE k \in hit : \A j \in hit : k <= j]

GetArgDefault(n, endCol, endRow) ==
    IF endCol = -1 THEN None
    ELSE ArgDefaultLoop(n.defaults, 1, endCol, endRow)

-----------------------------------------------------------------------------
(* CodeChecker._parseArgLines *)

CloseParenColon == <<")", ":">>
Newline == <<"\n">>

\* a returned Python list (None is the other value a call may return)
PyList(v) == [t |-> "list", v |-> v]

\* a slip in the inner loop: a continuation line is skipped, not appended
RECURSIVE DropContinuations(_, _, _)
DropContinuations(lines, currentLine, tempIndex) ==
    IF tempIndex < Len(lines) /\ ~Contains(lines[tempIndex + 1], CloseParenColon)
    THEN DropContinuations(lines, currentLine, tempIndex + 1)
    ELSE [currentLine |-> currentLine, tempIndex |-> tempIndex]

\* the inner while loop: currentLine grows by every line from tempIndex on
\* that lacks "):"; lines are addressed by their 0-based Python index
RECURSIVE AppendContinuations(_, _, _)
AppendContinuations(lines, currentLine, tempIndex) ==
    IF tempIndex < Len(lines) /\ ~Contains(lines[tempIndex + 1], CloseParenColon)
    THEN AppendContinuations(lines, currentLine \o lines[tempIndex + 1], tempIndex + 1)
    ELSE [currentLine |-> currentLine, tempIndex |-> tempIndex]

\* a slip in the loop body: the test of lines 345-346 is left out, the line
\* is taken as an entry and index advances by one
UncheckedIteration(lines, idx, entries) ==
    [returns |-> FALSE, index |-> idx + 1, argLines |-> Append(entries, lines[idx + 1])]

\* one iteration of "while index < len(splitArgsSection)": either the
\* function returns None (returns = TRUE) or an entry is appended and index
\* advances
ParseIteration(lines, idx, entries) ==
    LET currentLine == lines[idx + 1]
    IN  IF ~Contains(currentLine, CloseParenColon)
        THEN [returns |-> TRUE, index |-> idx, argLines |-> entries]
        ELSE IF (idx + 1) < Len(lines)
        THEN LET grown == AppendContinuations(lines, currentLine, idx + 1)
                 additionalLineJump == grown.tempIndex - idx
             IN  [returns |-> FALSE,
                  index |-> idx + additionalLineJump,
                  argLines |-> Append(entries, grown.currentLine)]
        ELSE [returns |-> FALSE,
              index |-> idx + 1,
              argLines |-> Append(entries, currentLine)]

RECURSIVE ParseLoop(_, _, _)
ParseLoop(lines, idx, entries) ==
    IF idx < Len(lines)
    THEN LET it == ParseIteration(lines, idx, entries)
         IN  IF it.returns THEN None ELSE ParseLoop(lines, it.index, it.argLines)
    ELSE PyList(entries)

ParseArgLines(sec) ==
    LET lines == Split(sec, Newline)
    IN  IF Len(lines) < 2 THEN None ELSE ParseLoop(lines, 1, <<>>)

-----------------------------------------------------------------------------
(* Python values and str() *)

PyStr(s) == [ty |-> "str", s |-> s]
PyNone == [ty |-> "NoneType"]

Digits == <<"0", "1", "2", "3", "4", "5", "6", "7", "8", "9">>

\* str(n) for n >= 0
RECURSIVE NatToStr(_)
NatToStr(n) ==
    IF n < 10 THEN <<Digits[n + 1]>>
    ELSE NatToStr(n \div 10) \o <<Digits[(n % 10) + 1]>>

\* str(value)
Str(value) ==
    IF value.ty = "int"
    THEN IF value.n < 0 THEN <<"-">> \o NatToStr(0 - value.n) ELSE NatToStr(value.n)
    ELSE IF value.ty = "str" THEN value.s
    ELSE <<"N", "o", "n", "e">>

LowerCase == <<"a", "b", "c", "d", "e", "f", "g", "h", "i", "j", "k", "l", "m",
               "n", "o", "p", "q", "r", "s", "t", "u", "v", "w", "x", "y", "z">>
UpperCase == <<"A", "B", "C", "D", "E", "F", "G", "H", "I", "J", "K", "L", "M",
               "N", "O", "P", "Q", "R", "S", "T", "U", "V", "W", "X", "Y", "Z">>

IsLower(c) == \E k \in 1..Len(LowerCase) : LowerCase[k] = c
IsUpper(c) == \E k \in 1..Len(UpperCase) : UpperCase[k] = c

\* c.isalpha() for a single character
IsAlpha(c) == IsLower(c) \/ IsUpper(c)

\* c.capitalize() for a single character: only a lowercase letter changes
Capitalize(c) ==
    IF IsLower(c) THEN UpperCase[CHOOSE k \in 1..Len(LowerCase) : LowerCase[k] = c]
    ELSE c

-----------------------------------------------------------------------------
(* Results of a call: a str, None, or an exception that leaves the call *)

Ret(s) == [t |-> "str", s |-> s]
Raise == [t |-> "raise"]

\* str(x) of a result that is a str or None
StrOf(r) == IF r = None THEN <<"N", "o", "n", "e">> ELSE r.s

-----------------------------------------------------------------------------
(* Annotation expressions *)

Name(id) == [t |-> "Name", id |-> id]
Attribute(value, attr) == [t |-> "Attribute", value |-> value, attr |-> attr]
Subscript(value, slice) == [t |-> "Subscript", value |-> value, slice |-> slice]
BinOp(left, right) == [t |-> "BinOp", left |-> left, right |-> right]
TupleOf(elts) == [t |-> "Tuple", elts |-> elts]
ListOf(elts) == [t |-> "List", elts |-> elts]
Constant(value) == [t |-> "Constant", value |-> value]
\* an expression of a class _getDefinedType has no branch for (ast.Call, ...)
OtherExpr == [t |-> "Call"]

-----------------------------------------------------------------------------
(* CodeChecker._getTypeFromAttributeOrName *)

\* the while loop: the attrs from the outermost inwards, then the root id;
\* a root that is neither Attribute nor Name has no attr: AttributeError
RECURSIVE AttributeChain(_)
AttributeChain(annotation) ==
    IF annotation.t = "Name" THEN PyList(<<annotation.id>>)
    ELSE IF annotation.t = "Attribute"
    THEN LET inner == AttributeChain(annotation.value)
         IN  IF inner = Raise THEN Raise ELSE PyList(<<annotation.attr>> \o inner.v)
    ELSE Raise

\* a slip: the collected names are emitted in the order they were collected,
\* outermost attribute first
RECURSIVE EmitOutermostFirst(_, _)
EmitOutermostFirst(definedType, pos) ==
    IF pos < 0 THEN <<>>
    ELSE EmitOutermostFirst(definedType, pos - 1)
             \o (IF pos # 0 THEN <<".">> ELSE <<>>) \o definedType[pos + 1]

\* the for loop from len - 1 down to 0, a "." after every element but the last
RECURSIVE EmitReversed(_, _)
EmitReversed(definedType, pos) ==
    IF pos < 0 THEN <<>>
    ELSE definedType[pos + 1] \o (IF pos # 0 THEN <<".">> ELSE <<>>)
             \o EmitReversed(definedType, pos - 1)

GetTypeFromAttributeOrName(annotation) ==
    LET definedType == AttributeChain(annotation)
    IN  IF definedType = Raise THEN Raise
        ELSE Ret(EmitReversed(definedType.v, Len(definedType.v) - 1))

-----------------------------------------------------------------------------
(* CodeChecker._getDefinedType *)

\* sep.join(items) of results: TypeError when an item is None
JoinResults(items, sep) ==
    IF \E k \in 1..Len(items) : items[k] = Raise THEN Raise
    ELSE IF \E k \in 1..Len(items) : items[k] = None THEN Raise
    ELSE Ret(Join([k \in 1..Len(items) |-> items[k].s], sep))

RECURSIVE GetDefinedType(_)
GetDefinedType(annotation) ==
    IF annotation.t = "BinOp"
    THEN LET leftDefinedType == GetDefinedType(annotation.left)
             rightDefinedType == GetDefinedType(annotation.right)
         IN  IF leftDefinedType = Raise \/ rightDefinedType = Raise THEN Raise
             ELSE Ret(StrOf(leftDefinedType) \o <<"|">> \o StrOf(rightDefinedType))
    ELSE IF annotation.t = "Tuple"
    THEN JoinResults([k \in 1..Len(annotation.elts) |-> GetDefinedType(annotation.elts[k])],
                     <<",", " ">>)
    ELSE IF annotation.t = "Subscript"
    THEN IF annotation.value.t # "Name" THEN Raise   \* no attribute id
         ELSE LET inner == GetDefinedType(annotation.slice)
              IN  IF inner = Raise \/ inner = None THEN Raise   \* str + None
                  ELSE Ret(annotation.value.id \o <<"[">> \o inner.s \o <<"]">>)
    ELSE IF annotation.t = "Constant" THEN Ret(Str(annotation.value))
    ELSE IF annotation.t = "Attribute" \/ annotation.t = "Name"
    THEN GetTypeFromAttributeOrName(annotation)
    ELSE IF annotation.t = "List"
    THEN LET types == JoinResults(
                 [k \in 1..Len(annotation.elts) |-> GetDefinedType(annotation.elts[k])],
                 <<",">>)
         IN  IF types = Raise THEN Raise ELSE Ret(<<"[">> \o types.s \o <<"]">>)
    ELSE None

-----------------------------------------------------------------------------
(* Default expressions, at a source position *)

UnaryOpAt(op, operand, col, line) ==
    [t |-> "UnaryOp", op |-> op, operand |-> operand, col_offset |-> col,
     end_lineno |-> line]

NameAt(id, col, line) == [t |-> "Name", id |-> id, col_offset |-> col, end_lineno |-> line]

\* whether expr.value exists (ast.Constant has it, ast.Name and ast.UnaryOp do not)
HasValue(expr) == expr.t = "Constant"

\* -1 * value
Negated(value) ==
    IF value.ty = "int" THEN PyInt(0 - value.n)
    ELSE IF value.ty = "str" THEN PyStr(<<>>)
    ELSE Raise

-----------------------------------------------------------------------------
(* Findings: toString(node, message) *)

\* the f-string message of the source line that appends the finding
Msg(kind) == [kind |-> kind]
MsgArg(kind, arg) == [kind |-> kind, arg |-> arg]

toString(n, message) ==
    [lineno |-> n.lineno,
     function |-> IF n.t = "FunctionDef" THEN n.name ELSE <<>>,
     message |-> message]

\* the findings of errs whose message is of the given kind
OfKind(errs, kind) == SelectSeq(errs, LAMBDA e : e.message.kind = kind)

-----------------------------------------------------------------------------
(* CodeChecker._verifySections *)

Semicolon == <<";">>
DefaultsTo == <<"d", "e", "f", "a", "u", "l", "t", "s", " ", "t", "o">>

\* a slip: the unary minus is not applied to the operand's value
DefaultValueUnsigned(default) ==
    IF default.t = "UnaryOp"
    THEN IF ~HasValue(default.operand) THEN Raise
         ELSE default.operand.value
    ELSE IF ~HasValue(default) THEN Raise
    ELSE default.value

\* lines 446-452: the value whose text is looked for, or Raise
DefaultValue(default) ==
    IF default.t = "UnaryOp"
    THEN IF ~HasValue(default.operand) THEN Raise
         ELSE IF default.op = "USub"
         THEN Negated(default.operand.value)
         ELSE default.operand.value
    ELSE IF ~HasValue(default) THEN Raise
    ELSE default.value

\* line 434: the test that guards the capital-letter finding
StartsCapital(sec) == Capitalize(sec[1]) = sec[1]

\* lines 443-456 for one stripped section that contains "defaults to"
DefaultFindings(n, sec, default, arg) ==
    IF default # None
    THEN LET Compare(defaultValue) ==
                 IF defaultValue = Raise THEN [errs |-> <<>>, raises |-> TRUE]
                 ELSE IF ~Contains(sec, Str(defaultValue))
                 THEN [errs |-> <<toString(n, [kind |-> "defaultMismatch", arg |-> arg,
                                               value |-> Str(defaultValue)])>>,
                       raises |-> FALSE]
                 ELSE [errs |-> <<>>, raises |-> FALSE]
         IN  Compare(DefaultValue(default))
    ELSE [errs |-> <<toString(n, MsgArg("defaultDocumentedNoDefault", arg))>>,
          raises |-> FALSE]

\* lines 429-456: the loop body for one element of parts
VerifySection(n, rawSection, default, arg) ==
    IF rawSection = <<>>
    THEN [errs |-> <<toString(n, MsgArg("emptySection", arg))>>,
          raises |-> FALSE, foundDefault |-> FALSE]
    ELSE LET Checks(sec) ==
                 IF sec = <<>>   \* section[0]: IndexError
                 THEN [errs |-> <<>>, raises |-> TRUE, foundDefault |-> FALSE]
                 ELSE LET capital == IF StartsCapital(sec)
                                     THEN <<toString(n, MsgArg("capitalLetter", arg))>>
                                     ELSE <<>>
                          period == IF EndsWith(sec, <<".">>)
                                    THEN <<toString(n, MsgArg("endsWithPeriod", arg))>>
                                    ELSE <<>>
                          colon == IF Contains(sec, <<":">>)
                                   THEN <<toString(n, MsgArg("containsColon", arg))>>
                                   ELSE <<>>
                          WithDefault(found, dres) ==
                              [errs |-> capital \o period \o colon \o dres.errs,
                               raises |-> dres.raises,
                               foundDefault |-> found]
                      IN  IF Contains(sec, DefaultsTo)
                          THEN WithDefault(TRUE, DefaultFindings(n, sec, default, arg))
                          ELSE WithDefault(FALSE, [errs |-> <<>>, raises |-> FALSE])
         IN  Checks(Strip(rawSection))

\* lines 458-459: after the loop
AfterSections(n, wasFound, default, arg) ==
    IF ~wasFound /\ default # None
    THEN IF ~HasValue(default)   \* default.value
         THEN [errs |-> <<>>, raises |-> TRUE]
         ELSE [errs |-> <<toString(n, [kind |-> "defaultNotReflected", arg |-> arg,
                                       value |-> Str(default.value)])>>,
               raises |-> FALSE]
    ELSE [errs |-> <<>>, raises |-> FALSE]

\* the for loop over parts from element k on, then lines 458-459
RECURSIVE SectionsLoop(_, _, _, _, _, _)
SectionsLoop(n, parts, k, wasFound, default, arg) ==
    IF k > Len(parts)
    THEN AfterSections(n, wasFound, default, arg)
    ELSE LET Body(it) ==
                 IF it.raises THEN [errs |-> it.errs, raises |-> TRUE]
                 ELSE LET rest == SectionsLoop(n, parts, k + 1,
                                               wasFound \/ it.foundDefault,
                                               default, arg)
                      IN  [errs |-> it.errs \o rest.errs, raises |-> rest.raises]
         IN  Body(VerifySection(n, parts[k], default, arg))

VerifySections(n, defn, default, arg) ==
    SectionsLoop(n, Split(defn, Semicolon), 1, FALSE, default, arg)

-----------------------------------------------------------------------------
(* CodeChecker._docArgExists *)

DocArgExists(docArgName, argList) == \E k \in 1..Len(argList) : argList[k].arg = docArgName

-----------------------------------------------------------------------------
(* CodeChecker._verifyArgLines *)

OpenParen == <<" ", "(">>
Space == <<" ">>
OptionalSuffix == <<",", " ", "o", "p", "t", "i", "o", "n", "a", "l">>

\* a slip: the suffix is appended whether or not a default was found
AlwaysOptional(definedType, default) == definedType \o OptionalSuffix

\* lines 401-402: the real type, ", optional" appended when a default was found
WithOptional(definedType, default) ==
    IF default # None THEN definedType \o OptionalSuffix ELSE definedType

\* a slip: the description is checked only when the type could be constructed
DescriptionReachedIfTyped(functionArgEndCol, definedType) ==
    functionArgEndCol # -1 /\ definedType # None

\* line 408: the guard of the description checks; the break at line 400 leaves
\* functionArgEndCol set, whatever definedType is
DescriptionReached(functionArgEndCol, definedType) == functionArgEndCol # -1

\* lines 394-406 for the first parameter named name: the findings, the end
\* column and the default that the lines after the loop see
MatchParameter(n, name, argType) ==
    IF ~DocArgExists(name, n.args)
    THEN [errs |-> <<>>, raises |-> FALSE, functionArgEndCol |-> -1, default |-> None,
          definedType |-> None]
    ELSE LET a == n.args[CHOOSE k \in 1..Len(n.args) :
                            /\ n.args[k].arg = name
                            /\ \A j \in 1..(k - 1) : n.args[j].arg # name]
             functionArgEndCol == a.end_col_offset
             functionArgEndRow == a.end_lineno
             Mismatch(real, default, definedType) ==
                 [errs |-> IF real # argType
                           THEN <<toString(n, [kind |-> "typeMismatch", arg |-> name,
                                               documented |-> argType,
                                               defined |-> real])>>
                           ELSE <<>>,
                  raises |-> FALSE, functionArgEndCol |-> functionArgEndCol,
                  default |-> default, definedType |-> definedType]
             Compare(definedType, default) ==
                 IF definedType = Raise
                 THEN [errs |-> <<>>, raises |-> TRUE, functionArgEndCol |-> -1,
                       default |-> None, definedType |-> Raise]
                 ELSE IF definedType = None
                 THEN [errs |-> <<toString(n, MsgArg("typeNotConstructed", name))>>,
                       raises |-> FALSE, functionArgEndCol |-> functionArgEndCol,
                       default |-> default, definedType |-> None]
                 ELSE Mismatch(Replace(WithOptional(definedType.s, default), Space, <<>>),
                               default, definedType)
         IN  Compare(GetDefinedType(a.annotation),
                     GetArgDefault(n, functionArgEndCol, functionArgEndRow))

\* lines 408-413: the description checks
VerifyDescription(n, midSplit, default, name) ==
    IF Len(midSplit) < 2   \* midSplit[1]: IndexError
    THEN [errs |-> <<>>, raises |-> TRUE]
    ELSE LET definitionSentence == midSplit[2]
             missing == IF definitionSentence = <<>>
                        THEN <<toString(n, MsgArg("descriptionMissing", name))>>
                        ELSE <<>>
             Described(sections) ==
                 [errs |-> missing \o sections.errs, raises |-> sections.raises]
         IN  Described(VerifySections(n, definitionSentence, default, name))

\* lines 375-413: the loop body for one argLine; docArg is the name appended
\* to docArgs, None when the entry is skipped
VerifyArgLine(n, argLine) ==
    LET Described(name, sofar, described) ==
            [errs |-> sofar \o described.errs, raises |-> described.raises,
             docArg |-> Ret(name)]
        Matched(name, midSplit, unknown, matched) ==
            IF matched.raises
            THEN [errs |-> unknown \o matched.errs, raises |-> TRUE,
                  docArg |-> Ret(name)]
            ELSE IF DescriptionReached(matched.functionArgEndCol, matched.definedType)
            THEN Described(name, unknown \o matched.errs,
                           VerifyDescription(n, midSplit, matched.default, name))
            ELSE [errs |-> unknown \o matched.errs, raises |-> FALSE,
                  docArg |-> Ret(name)]
        Typed(name, midSplit) ==
            Matched(name, midSplit,
                    IF ~DocArgExists(name, n.args)
                    THEN <<toString(n, MsgArg("notInArguments", name))>>
                    ELSE <<>>,
                    MatchParameter(n, name, Replace(midSplit[1], Space, <<>>)))
        Line(splitOnOpen) ==
            IF Len(splitOnOpen) = 1
            THEN [errs |-> <<toString(n, Msg("noTypeDefinition"))>>, raises |-> FALSE,
                  docArg |-> None]
            ELSE Typed(Strip(splitOnOpen[1]), Split(splitOnOpen[2], CloseParenColon))
    IN  Line(Split(argLine, OpenParen))

\* the for loop over the lines from position k on: findings, names, exception
RECURSIVE ArgLinesLoop(_, _, _)
ArgLinesLoop(n, lines, k) ==
    IF k > Len(lines) THEN [errs |-> <<>>, raises |-> FALSE, docArgs |-> <<>>]
    ELSE LET Body(it) ==
                 LET names == IF it.docArg = None THEN <<>> ELSE <<it.docArg.s>>
                 IN  IF it.raises
                     THEN [errs |-> it.errs, raises |-> TRUE, docArgs |-> names]
                     ELSE LET rest == ArgLinesLoop(n, lines, k + 1)
                          IN  [errs |-> it.errs \o rest.errs, raises |-> rest.raises,
                               docArgs |-> names \o rest.docArgs]
         IN  Body(VerifyArgLine(n, lines[k]))

VerifyArgLines(n, lines) == ArgLinesLoop(n, lines, 1)

-----------------------------------------------------------------------------
(* CodeChecker._verifyFuncArgsInDoc *)

\* self.specialVariables
SpecialVariables ==
    { <<"s", "e", "l", "f">>, <<"c", "l", "s">>, <<"*", "a", "r", "g", "s">>,
      <<"*", "*", "k", "w", "a", "r", "g", "s">> }

InList(x, list) == \E k \in 1..Len(list) : list[k] = x

\* the for loop over functionArgs from position k on
RECURSIVE FuncArgsLoop(_, _, _)
FuncArgsLoop(n, names, k) ==
    IF k > Len(n.args) THEN <<>>
    ELSE LET functionArgName == n.args[k].arg
         IN  (IF ~InList(functionArgName, names) /\ functionArgName \notin SpecialVariables
              THEN <<toString(n, MsgArg("notDocumented", functionArgName))>>
              ELSE <<>>) \o FuncArgsLoop(n, names, k + 1)

VerifyFuncArgsInDoc(n, names) == FuncArgsLoop(n, names, 1)

-----------------------------------------------------------------------------
(* CodeChecker.docstringArgSection *)

\* a slip: the return after the "Args section is empty" finding is missing
DocstringArgSectionNoReturn(n, sec) ==
    IF n.t # "FunctionDef"
    THEN [errs |-> <<toString(n, MsgArg("sectionForNonFunction", n.name))>>,
          raises |-> FALSE]
    ELSE LET Verified(empty, verified) ==
                 IF verified.raises THEN [errs |-> empty \o verified.errs, raises |-> TRUE]
                 ELSE [errs |-> empty \o verified.errs
                                   \o VerifyFuncArgsInDoc(n, verified.docArgs),
                       raises |-> FALSE]
             Parsed(parsed) ==
                 Verified(IF parsed = None \/ parsed.v = <<>>
                          THEN <<toString(n, MsgArg("argsSectionEmpty", n.name))>>
                          ELSE <<>>,
                          VerifyArgLines(n, IF parsed = None THEN <<>> ELSE parsed.v))
         IN  Parsed(ParseArgLines(Strip(CollapseSpaces(sec))))

DocstringArgSection(n, sec) ==
    IF n.t # "FunctionDef"
    THEN [errs |-> <<toString(n, MsgArg("sectionForNonFunction", n.name))>>,
          raises |-> FALSE]
    ELSE LET Verified(verified) ==
                 IF verified.raises THEN [errs |-> verified.errs, raises |-> TRUE]
                 ELSE [errs |-> verified.errs \o VerifyFuncArgsInDoc(n, verified.docArgs),
                       raises |-> FALSE]
             Parsed(parsed) ==
                 IF parsed = None \/ parsed.v = <<>>   \* not argLines
                 THEN [errs |-> <<toString(n, MsgArg("argsSectionEmpty", n.name))>>,
                       raises |-> FALSE]
                 ELSE Verified(VerifyArgLines(n, parsed.v))
         IN  Parsed(ParseArgLines(Strip(CollapseSpaces(sec))))

-----------------------------------------------------------------------------
(* CodeChecker.docstringReturnSection *)

Colon == <<":">>

\* lines 277-285: the comparison with the function's return type
CompareReturnType(n, returnType) ==
    LET Mismatch(defined) ==
            IF defined # returnType
            THEN [errs |-> <<toString(n, [kind |-> "returnTypeMismatch",
                                          documented |-> returnType,
                                          defined |-> defined])>>,
                  raises |-> FALSE]
            ELSE [errs |-> <<>>, raises |-> FALSE]
        Compare(funcReturnType) ==
            IF funcReturnType = Raise THEN [errs |-> <<>>, raises |-> TRUE]
            ELSE IF funcReturnType = None
            THEN [errs |-> <<toString(n, MsgArg("returnTypeNotDefined", n.name))>>,
                  raises |-> FALSE]
            ELSE Mismatch(Replace(funcReturnType.s, Space, <<>>))
    IN  Compare(GetDefinedType(n.returns))

\* a slip: a function without a return type is passed over in silence
CompareReturnTypeIfDeclared(n, returnType) ==
    IF n.returns = None THEN [errs |-> <<>>, raises |-> FALSE]
    ELSE CompareReturnType(n, returnType)

\* lines 277-285 as docstringReturnSection reaches them
ReturnTypeCheck(n, returnType) == CompareReturnType(n, returnType)

DocstringReturnSection(n, sec) ==
    IF n.t # "FunctionDef"
    THEN [errs |-> <<toString(n, MsgArg("sectionForNonFunction", n.name))>>,
          raises |-> FALSE]
    ELSE LET ReturnLine(returnLineSplit) ==
                 IF Len(returnLineSplit) < 2
                 THEN [errs |-> <<toString(n, MsgArg("returnTypeDefinitionMissing",
                                                     n.name))>>,
                       raises |-> FALSE]
                 ELSE ReturnTypeCheck(n, Replace(Strip(returnLineSplit[1]), Space, <<>>))
             Section(splitReturnSection) ==
                 IF Len(splitReturnSection) < 2
                 THEN [errs |-> <<toString(n, MsgArg("returnSectionMissing", n.name))>>,
                       raises |-> FALSE]
                 ELSE ReturnLine(Split(splitReturnSection[2], Colon))
         IN  Section(Split(Strip(CollapseSpaces(sec)), Newline))

-----------------------------------------------------------------------------
(* CodeChecker.docstringDescriptionCheck *)

DocstringDescriptionCheck(n, sec) ==
    LET flat == Replace(Replace(Strip(sec), Newline, Space), <<"\t">>, Space)
        text == Strip(CollapseSpaces(flat))
    IN  IF text = <<>>
        THEN <<toString(n, MsgArg("descriptionIsMissing", n.name))>>
        ELSE (IF IsAlpha(text[1]) /\ Capitalize(text[1]) # text[1]
              THEN <<toString(n, MsgArg("descriptionNotCapital", n.name))>>
              ELSE <<>>)
             \o (IF ~EndsWith(text, <<".">>)
                 THEN <<toString(n, MsgArg("descriptionNoPeriod", n.name))>>
                 ELSE <<>>)

-----------------------------------------------------------------------------
(* CodeChecker.verifyDocstring *)

BlankLine == <<"\n", "\n">>
ArgsLabel == <<"A", "r", "g", "s", ":">>
ReturnsLabel == <<"R", "e", "t", "u", "r", "n", "s", ":">>

\* lines 209-213: the parameters that are not special variables
FilteredArgs(n) == SelectSeq(n.args, LAMBDA a : a.arg \notin SpecialVariables)

\* a Python str or None as a condition
Truthy(r) == r # None /\ r.s # <<>>

\* a slip: the exemption of the return type None is forgotten
ReturnUndocumentedAlsoNone(returnType, returnFound) == Truthy(returnType) /\ ~returnFound

\* line 219: the condition of the "return type not documented" finding
ReturnUndocumented(returnType, returnFound) ==
    Truthy(returnType) /\ ~returnFound /\ StrOf(returnType) # <<"N", "o", "n", "e">>

\* lines 208-220
FinalChecks(n, argFound, returnFound) ==
    IF n.t # "FunctionDef" THEN [errs |-> <<>>, raises |-> FALSE]
    ELSE LET undocumented ==
                 IF ~argFound /\ Len(FilteredArgs(n)) > 0
                 THEN <<toString(n, Msg("argumentsNotDocumented"))>>
                 ELSE <<>>
             Returns(returnType) ==
                 IF returnType = Raise THEN [errs |-> undocumented, raises |-> TRUE]
                 ELSE IF ReturnUndocumented(returnType, returnFound)
                 THEN [errs |-> Append(undocumented,
                                       toString(n, Msg("returnTypeNotDocumented"))),
                       raises |-> FALSE]
                 ELSE [errs |-> undocumented, raises |-> FALSE]
         IN  Returns(GetDefinedType(n.returns))

-----------------------------------------------------------------------------
(* Bounds of the checked instances *)

MaxDefaults == 2    \* longest defaults list of a drawn function
MaxCol == 5         \* largest end column of a drawn parameter
MaxRow == 2         \* source lines a drawn signature spans
MaxLines == 3       \* most content lines of a drawn Args section
MaxSections == 2    \* most ";"-separated sections of a drawn description
MaxEntries == 2     \* most entries of a drawn argLines list
MaxBlocks == 2      \* most blocks after the description of a drawn docstring

-----------------------------------------------------------------------------
(* Specification of a call of _getArgDefault on a drawn signature *)

\* source positions are ordered as the parser emits them: left to right,
\* top to bottom
PosBefore(a, b) ==
    \/ a.end_lineno < b.end_lineno
    \/ a.end_lineno = b.end_lineno /\ a.col_offset < b.col_offset

DefaultsAt == {ConstantAt(PyInt(5), c, l) : c \in 0..(MaxCol + 4), l \in 1..MaxRow}

RECURSIVE OrderedDefaults(_)
OrderedDefaults(n) ==
    IF n = 0 THEN {<<>>}
    ELSE LET shorter == OrderedDefaults(n - 1)
         IN  shorter \cup
             {Append(ds, d) : ds \in {x \in shorter : Len(x) = n - 1}, d \in DefaultsAt}

SourceOrdered(ds) == \A k \in 1..(Len(ds) - 1) : PosBefore(ds[k], ds[k + 1])

InitArgDefault ==
    /\ pc = "call"
    /\ errors = <<>>
    /\ raised = FALSE
    /\ node \in {[t |-> "FunctionDef", defaults |-> ds] :
                    ds \in {x \in OrderedDefaults(MaxDefaults) : SourceOrdered(x)}}
    /\ endColOfArg \in -1..MaxCol
    /\ endRowOfArg \in 1..MaxRow
    /\ result = None
    /\ IdleOutsideArgDefault

CallGetArgDefault ==
    /\ pc = "call"
    /\ result' = GetArgDefault(node, endColOfArg, endRowOfArg)
    /\ pc' = "done"
    /\ UNCHANGED <<errors, raised, node, varsArgDefault, OutsideArgDefault>>

NextArgDefault == CallGetArgDefault

SpecArgDefault == InitArgDefault /\ [][NextArgDefault]_vars

\* the defaults adjacent to the parameter end: 1 or 3 columns on, same end line
Adjacent ==
    {k \in 1..Len(node.defaults) :
        /\ node.defaults[k].col_offset - endColOfArg \in {1, 3}
        /\ node.defaults[k].end_lineno = endRowOfArg}

\* C1: _getArgDefault returns the first default in list order that starts 1 or
\* 3 columns after the parameter's end column on the parameter's end line, and
\* none when there is no such default or when the end column is -1.
C1_FirstAdjacentDefault ==
    pc = "done" =>
        IF endColOfArg = -1 \/ Adjacent = {}
        THEN result = None
        ELSE \E k \in Adjacent :
                /\ \A j \in Adjacent : k <= j
                /\ result = node.defaults[k]

\* a default 2 columns on, on the parameter's end line, was passed over and the
\* default 3 columns on was returned
C1_Witness ==
    /\ pc = "done"
    /\ result # None
    /\ result.col_offset = endColOfArg + 3
    /\ \E k \in 1..Len(node.defaults) :
          /\ node.defaults[k].col_offset = endColOfArg + 2
          /\ node.defaults[k].end_lineno = endRowOfArg

-----------------------------------------------------------------------------
(* Specification of a call of _parseArgLines, one loop iteration a step, on  *)
(* a drawn Args section as docstringArgSection passes it: spaces collapsed  *)
(* and the ends stripped                                                    *)

ArgsHeading == <<"A", "r", "g", "s", ":">>

\* content lines as they stand in a docstring, indented
ContentLines ==
    { <<" ", " ", "x", " ", "(", "T", ")", ":", " ", "a">>,
      <<" ", " ", "y", " ", "(", "U", ")", ":">>,
      <<" ", " ", " ", "w", " ", "v">>,
      <<" ", " ", "z", " ", "(", "T", ")">> }

RECURSIVE SeqsUpTo(_, _)
SeqsUpTo(S, n) ==
    IF n = 0 THEN {<<>>}
    ELSE LET shorter == SeqsUpTo(S, n - 1)
         IN  shorter \cup {Append(q, e) : q \in {x \in shorter : Len(x) = n - 1}, e \in S}

Normalised(raw) == Strip(CollapseSpaces(raw))

InitParse ==
    /\ pc = "call"
    /\ errors = <<>>
    /\ raised = FALSE
    /\ node = None
    /\ result = None
    /\ IdleOutsideParse
    /\ section \in {Normalised(Join(<<ArgsHeading>> \o ls, Newline)) :
                        ls \in SeqsUpTo(ContentLines, MaxLines)}
    /\ splitArgsSection = <<>>
    /\ index = 0
    /\ argLines = <<>>

\* lines 337-342: split, the early return, the loop's initial state
ParseEnter ==
    /\ pc = "call"
    /\ splitArgsSection' = Split(section, Newline)
    /\ IF Len(splitArgsSection') < 2
       THEN /\ pc' = "done"
            /\ result' = None
            /\ UNCHANGED <<index, argLines>>
       ELSE /\ pc' = "loop"
            /\ index' = 1
            /\ argLines' = <<>>
            /\ UNCHANGED result
    /\ UNCHANGED <<errors, raised, node, section, OutsideParse>>

\* lines 343-359: one iteration of the while loop
ParseIterate ==
    /\ pc = "loop"
    /\ index < Len(splitArgsSection)
    /\ LET it == ParseIteration(splitArgsSection, index, argLines)
       IN  /\ index' = it.index
           /\ argLines' = it.argLines
           /\ IF it.returns
              THEN pc' = "done" /\ result' = None
              ELSE UNCHANGED <<pc, result>>
    /\ UNCHANGED <<errors, raised, node, section, splitArgsSection, OutsideParse>>

\* line 360: the loop condition fails, the entries are returned
ParseReturn ==
    /\ pc = "loop"
    /\ ~(index < Len(splitArgsSection))
    /\ pc' = "done"
    /\ result' = PyList(argLines)
    /\ UNCHANGED <<errors, raised, node, varsParse, OutsideParse>>

NextParse == ParseEnter \/ ParseIterate \/ ParseReturn

SpecParse == InitParse /\ [][NextParse]_vars

\* the lines of the section, and the 1-based positions of those that open an
\* entry: the content lines that contain "):"
SectionLines == Split(section, Newline)
Openers == {k \in 2..Len(SectionLines) : Contains(SectionLines[k], CloseParenColon)}

\* the last line of the entry opened at line k
EntryEnd(k) ==
    IF \E j \in Openers : j > k
    THEN (CHOOSE j \in Openers : j > k /\ \A h \in Openers : h > k => j <= h) - 1
    ELSE Len(SectionLines)

\* the n-th opener in line order
NthOpener(n) == CHOOSE k \in Openers : Cardinality({j \in Openers : j < k}) = n - 1

\* C3: when the first content line contains "):", _parseArgLines returns one
\* entry per line that contains "):", in line order, each the line followed by
\* the lines up to the next such line (or the end) joined with no separator.
C3_OneEntryPerOpener ==
    (pc = "done" /\ Len(SectionLines) >= 2 /\ 2 \in Openers) =>
        /\ result # None
        /\ Len(result.v) = Cardinality(Openers)
        /\ \A n \in 1..Len(result.v) :
              result.v[n] =
                  Join(Slice(SectionLines, NthOpener(n), EntryEnd(NthOpener(n))), <<>>)

\* two entries were returned and one of them took up a continuation line
C3_Witness ==
    /\ pc = "done"
    /\ result # None
    /\ Len(result.v) = 2
    /\ \E n \in 1..2 : EntryEnd(NthOpener(n)) > NthOpener(n)

-----------------------------------------------------------------------------
(* Specification of a call of _verifySections, one element of sectionSplit  *)
(* a step, on a drawn description and a drawn matched default               *)

\* def f(...), the function whose docstring is checked
FunctionF == [t |-> "FunctionDef", name |-> <<"f">>, lineno |-> 1]

\* the text between two ";" of a description, as it follows "):"
SectionTexts ==
    { <<" ", "a">>,
      <<" ", "A">>,
      <<" ", "5">>,
      <<>>,
      <<" ">>,
      <<" ", "a", ".">>,
      <<" ">> \o DefaultsTo \o <<" ", "5">>,
      <<" ">> \o DefaultsTo \o <<" ", "-", "5">>,
      <<" ">> \o DefaultsTo \o <<" ", "7">> }

\* x=5, x=-5, x=+5, x=K, x=-K for a parameter that ends at column 7 of line 1
MatchedDefaults ==
    { ConstantAt(PyInt(5), 8, 1),
      UnaryOpAt("USub", Constant(PyInt(5)), 8, 1),
      UnaryOpAt("UAdd", Constant(PyInt(5)), 8, 1),
      NameAt(<<"K">>, 8, 1),
      UnaryOpAt("USub", Name(<<"K">>), 8, 1) }

InitSections ==
    /\ pc = "call"
    /\ errors = <<>>
    /\ raised = FALSE
    /\ node = FunctionF
    /\ result = None
    /\ IdleOutsideSections
    /\ definition \in {Join(ss, Semicolon) : ss \in SeqsUpTo(SectionTexts, MaxSections)}
    /\ correspondingDefault \in MatchedDefaults \cup {None}
    /\ argName = <<"x">>
    /\ sectionSplit = <<>>
    /\ sectionIdx = 0
    /\ foundDefault = FALSE

\* lines 426-427
SectionsEnter ==
    /\ pc = "call"
    /\ sectionSplit' = Split(definition, Semicolon)
    /\ sectionIdx' = 1
    /\ foundDefault' = FALSE
    /\ pc' = "loop"
    /\ UNCHANGED <<errors, raised, node, result, definition, correspondingDefault,
                   argName, OutsideSections>>

\* lines 428-456: one iteration of the for loop; an exception ends the call
SectionsIterate ==
    /\ pc = "loop"
    /\ sectionIdx <= Len(sectionSplit)
    /\ LET it == VerifySection(node, sectionSplit[sectionIdx], correspondingDefault, argName)
       IN  /\ errors' = errors \o it.errs
           /\ foundDefault' = (foundDefault \/ it.foundDefault)
           /\ IF it.raises
              THEN raised' = TRUE /\ pc' = "done" /\ UNCHANGED sectionIdx
              ELSE sectionIdx' = sectionIdx + 1 /\ UNCHANGED <<raised, pc>>
    /\ UNCHANGED <<node, result, definition, correspondingDefault, argName, sectionSplit,
                   OutsideSections>>

\* lines 458-459
SectionsFinish ==
    /\ pc = "loop"
    /\ sectionIdx > Len(sectionSplit)
    /\ LET after == AfterSections(node, foundDefault, correspondingDefault, argName)
       IN  /\ errors' = errors \o after.errs
           /\ raised' = after.raises
    /\ pc' = "done"
    /\ UNCHANGED <<node, result, definition, correspondingDefault, argName, sectionSplit,
                   sectionIdx, foundDefault, OutsideSections>>

NextSections == SectionsEnter \/ SectionsIterate \/ SectionsFinish

SpecSections == InitSections /\ [][NextSections]_vars

\* the ";"-delimited clauses of the description, and those the loop has been
\* through without an exception
Clauses == Split(definition, Semicolon)
Processed == IF pc = "call" THEN {} ELSE 1..(sectionIdx - 1)

\* number of findings of a kind in self.errors
Count(kind) == Len(OfKind(errors, kind))

\* C9: per clause, the capital-letter finding is emitted iff the clause is
\* non-empty after stripping and starts with an uppercase letter; a clause that
\* is empty after stripping is skipped and validation goes on to the next.
C9_CapitalIffUppercaseLetter ==
    /\ ~(/\ raised
         /\ sectionIdx <= Len(Clauses)
         /\ Clauses[sectionIdx] # <<>>
         /\ Strip(Clauses[sectionIdx]) = <<>>)
    /\ Count("capitalLetter") =
           Cardinality({k \in Processed :
                           /\ Strip(Clauses[k]) # <<>>
                           /\ IsUpper(Strip(Clauses[k])[1])})

\* the text of a default that is a constant or a unary operator on a constant:
\* the value, negated under a unary minus
IsLiteral(d) ==
    \/ d.t = "Constant"
    \/ d.t = "UnaryOp" /\ d.operand.t = "Constant"
LiteralText(d) ==
    IF d.t = "UnaryOp"
    THEN IF d.op = "USub" THEN Str(PyInt(0 - d.operand.value.n)) ELSE Str(d.operand.value)
    ELSE Str(d.value)

DocumentsDefault(k) == Contains(Clauses[k], DefaultsTo)

\* C10: for the clauses that contain "defaults to": with a matched literal
\* default, a mismatch finding is emitted for exactly those whose text lacks
\* the default's value (negated under a unary minus); with no default, exactly
\* one finding per clause says the documented default does not exist.
C10_DefaultsToFindings ==
    /\ (correspondingDefault # None /\ IsLiteral(correspondingDefault)) =>
          /\ Count("defaultMismatch") =
                 Cardinality({k \in Processed :
                     /\ DocumentsDefault(k)
                     /\ ~Contains(Clauses[k], LiteralText(correspondingDefault))})
          /\ Count("defaultDocumentedNoDefault") = 0
    /\ correspondingDefault = None =>
          /\ Count("defaultDocumentedNoDefault") =
                 Cardinality({k \in Processed : DocumentsDefault(k)})
          /\ Count("defaultMismatch") = 0

\* x=-5 documented once as "defaults to 5" (reported) and once as
\* "defaults to -5" (not reported)
C10_Witness ==
    /\ pc = "done"
    /\ ~raised
    /\ correspondingDefault # None
    /\ correspondingDefault.t = "UnaryOp"
    /\ correspondingDefault.op = "USub"
    /\ Cardinality({k \in Processed : DocumentsDefault(k)}) = 2
    /\ Count("defaultMismatch") = 1

-----------------------------------------------------------------------------
(* Specification of a call of _verifyArgLines, one argLine a step, on a      *)
(* drawn signature and drawn entries as _parseArgLines returns them          *)

\* a parameter (ast.arg) and the end position the parser gives it
Arg(name, annotation, endCol, line) ==
    [arg |-> name, annotation |-> annotation, end_col_offset |-> endCol,
     end_lineno |-> line]

FunctionDef(name, args, defaults, returns) ==
    [t |-> "FunctionDef", name |-> name, lineno |-> 1, args |-> args,
     defaults |-> defaults, returns |-> returns]

TypeInt == Name(<<"i", "n", "t">>)
TypeStr == Name(<<"s", "t", "r">>)

\* signatures of def f, positions as the parser reports them for the text
Signatures ==
    { \* def f(x: int)
      FunctionDef(<<"f">>, <<Arg(<<"x">>, TypeInt, 12, 1)>>, <<>>, None),
      \* def f(x: int = 5)
      FunctionDef(<<"f">>, <<Arg(<<"x">>, TypeInt, 12, 1)>>,
                  <<ConstantAt(PyInt(5), 15, 1)>>, None),
      \* def f(x=5)
      FunctionDef(<<"f">>, <<Arg(<<"x">>, None, 7, 1)>>,
                  <<ConstantAt(PyInt(5), 8, 1)>>, None),
      \* def f(x)
      FunctionDef(<<"f">>, <<Arg(<<"x">>, None, 7, 1)>>, <<>>, None),
      \* def f(x: g() = 5)
      FunctionDef(<<"f">>, <<Arg(<<"x">>, OtherExpr, 12, 1)>>,
                  <<ConstantAt(PyInt(5), 15, 1)>>, None),
      \* def f(x: a.b[int])
      FunctionDef(<<"f">>,
                  <<Arg(<<"x">>, Subscript(Attribute(Name(<<"a">>), <<"b">>), TypeInt),
                        18, 1)>>,
                  <<>>, None),
      \* def f(x: int | None = None)
      FunctionDef(<<"f">>, <<Arg(<<"x">>, BinOp(TypeInt, Constant(PyNone)), 19, 1)>>,
                  <<ConstantAt(PyNone, 22, 1)>>, None),
      \* def f(self, x: int, y: str = -5)
      FunctionDef(<<"f">>,
                  <<Arg(<<"s", "e", "l", "f">>, None, 10, 1), Arg(<<"x">>, TypeInt, 18, 1),
                    Arg(<<"y">>, TypeStr, 26, 1)>>,
                  <<UnaryOpAt("USub", Constant(PyInt(5)), 29, 1)>>, None),
      \* def f(x: int,y=5)
      FunctionDef(<<"f">>, <<Arg(<<"x">>, TypeInt, 12, 1), Arg(<<"y">>, None, 14, 1)>>,
                  <<ConstantAt(PyInt(5), 15, 1)>>, None) }

\* entries of an Args section, each with the space the indentation collapses to
Entries ==
    { \* documented as int
      <<" ", "x", " ", "(", "i", "n", "t", ")", ":", " ", "a">>,
      \* documented as optional int
      <<" ", "x", " ", "(", "i", "n", "t", ",", " ", "o", "p", "t", "i", "o",
        "n", "a", "l", ")", ":", " ", "a", ";", " ", "d", "e", "f", "a", "u",
        "l", "t", "s", " ", "t", "o", " ", "5">>,
      \* optional, written without the space
      <<" ", "x", " ", "(", "i", "n", "t", ",", "o", "p", "t", "i", "o", "n",
        "a", "l", ")", ":", " ", "a">>,
      \* another type; capital and period in the description
      <<" ", "x", " ", "(", "s", "t", "r", ")", ":", " ", "A", ".">>,
      \* a union
      <<" ", "x", " ", "(", "i", "n", "t", " ", "|", " ", "N", "o", "n", "e",
        ",", " ", "o", "p", "t", "i", "o", "n", "a", "l", ")", ":", " ", "d",
        "e", "f", "a", "u", "l", "t", "s", " ", "t", "o", " ", "N", "o", "n",
        "e">>,
      \* the second parameter
      <<" ", "y", " ", "(", "s", "t", "r", ",", " ", "o", "p", "t", "i", "o",
        "n", "a", "l", ")", ":", " ", "b", ";", " ", "d", "e", "f", "a", "u",
        "l", "t", "s", " ", "t", "o", " ", "-", "5">>,
      \* no such parameter
      <<" ", "z", " ", "(", "i", "n", "t", ")", ":", " ", "c">>,
      \* no ' (' in the entry
      <<" ", "x", ")", ":", " ", "a">>,
      \* no description
      <<" ", "x", " ", "(", "i", "n", "t", ")", ":">>,
      \* a second ' (' before '):'
      <<" ", "x", " ", "(", "i", "n", "t", ")", " ", "(", "k", ")", ":", " ",
        "a">> }

InitArgLines ==
    /\ pc = "loop"
    /\ errors = <<>>
    /\ raised = FALSE
    /\ node \in Signatures
    /\ result = None
    /\ IdleOutsideArgLines
    /\ argLines \in SeqsUpTo(Entries, MaxEntries)
    /\ lineIdx = 1
    /\ docArgs = <<>>

\* lines 374-413: one iteration of the for loop; an exception ends the call
ArgLinesIterate ==
    /\ pc = "loop"
    /\ lineIdx <= Len(argLines)
    /\ LET it == VerifyArgLine(node, argLines[lineIdx])
       IN  /\ errors' = errors \o it.errs
           /\ docArgs' = IF it.docArg = None THEN docArgs ELSE Append(docArgs, it.docArg.s)
           /\ IF it.raises
              THEN raised' = TRUE /\ pc' = "done" /\ UNCHANGED lineIdx
              ELSE lineIdx' = lineIdx + 1 /\ UNCHANGED <<raised, pc>>
    /\ UNCHANGED <<node, result, argLines, OutsideArgLines>>

\* line 415
ArgLinesReturn ==
    /\ pc = "loop"
    /\ lineIdx > Len(argLines)
    /\ result' = PyList(docArgs)
    /\ pc' = "done"
    /\ UNCHANGED <<errors, raised, node, argLines, varsArgLines, OutsideArgLines>>

NextArgLines == ArgLinesIterate \/ ArgLinesReturn

SpecArgLines == InitArgLines /\ [][NextArgLines]_vars

\* the entries the loop has been through, the one an exception ended included
Reached == 1..(lineIdx - 1) \cup (IF raised THEN {lineIdx} ELSE {})

\* an entry read as "name (type): description"
OpenAt(e) == FindFrom(e, OpenParen, 1)
CloseAt(e) == FindFrom(e, CloseParenColon, OpenAt(e) + 2)
WellFormed(e) ==
    /\ OpenAt(e) # 0
    /\ CloseAt(e) # 0
    /\ FindFrom(e, OpenParen, OpenAt(e) + 1) \notin (OpenAt(e) + 1)..CloseAt(e)
EntryName(e) == Strip(Slice(e, 1, OpenAt(e) - 1))
EntryType(e) == Slice(e, OpenAt(e) + 2, CloseAt(e) - 1)
EntryDescription(e) == Slice(e, CloseAt(e) + 2, Len(e))

NoSpaces(s) == SelectSeq(s, LAMBDA c : c # " ")

\* the parameter an entry names: the first of that name
Documents(e) == WellFormed(e) /\ DocArgExists(EntryName(e), node.args)
ParamOf(e) ==
    node.args[CHOOSE k \in 1..Len(node.args) :
                 /\ node.args[k].arg = EntryName(e)
                 /\ \A j \in 1..(k - 1) : node.args[j].arg # EntryName(e)]
RealTypeOf(e) == GetDefinedType(ParamOf(e).annotation)
LocatedDefault(e) == GetArgDefault(node, ParamOf(e).end_col_offset, ParamOf(e).end_lineno)

\* the reached entries whose parameter has a determinable type
TypedEntries ==
    {k \in Reached :
        /\ OpenAt(argLines[k]) # 0
        /\ CloseAt(argLines[k]) # 0
        /\ DocArgExists(EntryName(argLines[k]), node.args)
        /\ RealTypeOf(argLines[k]).t = "str"}

\* the real type as it is compared: ", optional" appended when the locator
\* finds a default, spaces removed
ComparedType(e) ==
    NoSpaces(RealTypeOf(e).s \o (IF LocatedDefault(e) # None THEN OptionalSuffix ELSE <<>>))

\* C2: for the entries whose parameter has a determinable type T, the
\* type-mismatch finding is emitted iff the documented type and T, with
\* ", optional" appended when the locator finds a default, differ once all
\* spaces are removed.
C2_TypeMismatchIffDiffers ==
    Count("typeMismatch") =
        Cardinality({k \in TypedEntries :
                        NoSpaces(EntryType(argLines[k])) # ComparedType(argLines[k])})

\* a parameter with a located default, documented once with ", optional" (no
\* finding) and once without (finding)
C2_Witness ==
    /\ pc = "done"
    /\ ~raised
    /\ Cardinality(TypedEntries) = 2
    /\ \A k \in TypedEntries : LocatedDefault(argLines[k]) # None
    /\ \E k \in TypedEntries : Contains(EntryType(argLines[k]), OptionalSuffix)
    /\ Count("typeMismatch") = 1

\* the reached entries whose parameter's type is undeterminable, and whose
\* name no other entry documents
UntypedEntries ==
    {k \in Reached :
        /\ Documents(argLines[k])
        /\ RealTypeOf(argLines[k]) = None
        /\ \A j \in 1..Len(argLines) :
              (j # k /\ OpenAt(argLines[j]) # 0) =>
                  EntryName(argLines[j]) # EntryName(argLines[k])}

\* the findings that name a parameter
FindingsFor(name) ==
    SelectSeq(errors, LAMBDA e : "arg" \in DOMAIN e.message /\ e.message.arg = name)
KindsFor(name) == {FindingsFor(name)[k].message.kind : k \in 1..Len(FindingsFor(name))}

\* C5 (as claimed): for an entry whose parameter's type is undeterminable the
\* only finding is "type for arg could not be constructed"; no description,
\* sentence-format or default-value finding is emitted for it.
C5_UndeterminableSkipsEntry ==
    \A k \in UntypedEntries :
        FindingsFor(EntryName(argLines[k])) =
            <<toString(node, MsgArg("typeNotConstructed", EntryName(argLines[k])))>>

FirstClause(e) == Strip(Split(EntryDescription(e), Semicolon)[1])

\* C5 (amended): for such an entry the finding "type for arg could not be
\* constructed" is emitted once and first, the type comparison is skipped, and
\* the description checks still run: a missing description, a clause that
\* starts with a capital, and a located constant default that no clause
\* documents are each reported.
C5_UndeterminableSkipsTypeOnly ==
    \A k \in UntypedEntries :
        LET e == argLines[k]
            found == FindingsFor(EntryName(e))
        IN  /\ found # <<>>
            /\ found[1] = toString(node, MsgArg("typeNotConstructed", EntryName(e)))
            /\ Len(SelectSeq(found, LAMBDA f : f.message.kind = "typeNotConstructed")) = 1
            /\ "typeMismatch" \notin KindsFor(EntryName(e))
            /\ EntryDescription(e) = <<>> =>
                  {"descriptionMissing", "emptySection"} \subseteq KindsFor(EntryName(e))
            /\ (FirstClause(e) # <<>> /\ ~IsLower(FirstClause(e)[1])) =>
                  "capitalLetter" \in KindsFor(EntryName(e))
            /\ (/\ ~raised
                /\ LocatedDefault(e).t = "Constant"
                /\ ~Contains(EntryDescription(e), DefaultsTo)) =>
                  "defaultNotReflected" \in KindsFor(EntryName(e))

\* def f(x) documented as " x (str): A.": the type finding, then the findings
\* of the description
C5_Witness ==
    /\ pc = "done"
    /\ ~raised
    /\ \E k \in UntypedEntries :
          /\ ParamOf(argLines[k]).annotation = None
          /\ {"typeNotConstructed", "capitalLetter", "endsWithPeriod"}
                 \subseteq KindsFor(EntryName(argLines[k]))

-----------------------------------------------------------------------------
(* Specification of a call of verifyDocstring, one half of a loop iteration *)
(* a step, on a drawn declaration and a drawn docstring                     *)

ClassDef(name) == [t |-> "ClassDef", name |-> name, lineno |-> 1]

ArgX == Arg(<<"x">>, TypeInt, 12, 1)

\* the declarations whose docstring is checked
Declarations ==
    { \* def f(x: int) -> int
      FunctionDef(<<"f">>, <<ArgX>>, <<>>, TypeInt),
      \* def f(x: int)
      FunctionDef(<<"f">>, <<ArgX>>, <<>>, None),
      \* def f(x: int, y: str) -> None
      FunctionDef(<<"f">>, <<ArgX, Arg(<<"y">>, TypeStr, 20, 1)>>, <<>>, Constant(PyNone)),
      \* def f(self) -> int
      FunctionDef(<<"f">>, <<Arg(<<"s", "e", "l", "f">>, None, 10, 1)>>, <<>>, TypeInt),
      \* def f(x: int) -> g()
      FunctionDef(<<"f">>, <<ArgX>>, <<>>, OtherExpr),
      \* def f(x: int) -> a.b[int]
      FunctionDef(<<"f">>, <<ArgX>>, <<>>,
                  Subscript(Attribute(Name(<<"a">>), <<"b">>), TypeInt)),
      \* def f(x: int) -> ""
      FunctionDef(<<"f">>, <<ArgX>>, <<>>, Constant(PyStr(<<>>))),
      \* class C
      ClassDef(<<"C">>) }

DescriptionText == <<"D", "o", " ", "i", "t", ".">>

\* the blocks that follow the description, as ast.get_docstring returns them
Blocks ==
    { \* documents x
      <<"A", "r", "g", "s", ":", "\n", " ", " ", " ", " ", "x", " ", "(",
        "i", "n", "t", ")", ":", " ", "a">>,
      \* documents y
      <<"A", "r", "g", "s", ":", "\n", " ", " ", " ", " ", "y", " ", "(",
        "s", "t", "r", ")", ":", " ", "b">>,
      \* the first content line lacks '):'
      <<"A", "r", "g", "s", ":", "\n", " ", " ", " ", " ", "x", " ", "i",
        "s", "\n", " ", " ", " ", " ", "x", " ", "(", "i", "n", "t", ")",
        ":", " ", "a">>,
      \* no content line
      <<"A", "r", "g", "s", ":">>,
      \* documents the return type int
      <<"R", "e", "t", "u", "r", "n", "s", ":", "\n", " ", " ", " ", " ",
        "i", "n", "t", ":", " ", "a">>,
      \* no ':' in the content line
      <<"R", "e", "t", "u", "r", "n", "s", ":", "\n", " ", " ", " ", " ",
        "i", "n", "t">>,
      \* no content line
      <<"R", "e", "t", "u", "r", "n", "s", ":">>,
      \* neither label
      <<"N", "o", "t", "e">> }

InitDocstring ==
    /\ pc = "call"
    /\ errors = <<>>
    /\ raised = FALSE
    /\ node \in Declarations
    /\ result = None
    /\ IdleOutsideDocstring
    /\ docstring \in {<<>>} \cup
           {Join(<<DescriptionText>> \o bs, BlankLine) : bs \in SeqsUpTo(Blocks, MaxBlocks)}
    /\ splitDocstring = <<>>
    /\ i = 0
    /\ argSectionFound = FALSE
    /\ returnSectionFound = FALSE

\* lines 187-197: the missing docstring, the split, the description check
VerifyDocstringEnter ==
    /\ pc = "call"
    /\ IF docstring = <<>>
       THEN /\ errors' = Append(errors, toString(node, MsgArg("missingDocstring", node.name)))
            /\ pc' = "done"
            /\ UNCHANGED <<splitDocstring, i>>
       ELSE \E split \in {Split(docstring, BlankLine)} :
                /\ splitDocstring' = split
                /\ errors' = errors \o DocstringDescriptionCheck(node, split[1])
                /\ i' = 1
                /\ pc' = IF 1 < Len(split) THEN "args" ELSE "final"
    /\ UNCHANGED <<raised, node, result, docstring, argSectionFound, returnSectionFound,
                   OutsideDocstring>>

\* lines 200-203: the first half of an iteration of the loop over the blocks
SectionArgs ==
    /\ pc = "args"
    /\ LET sec == splitDocstring[i + 1]
       IN  IF Contains(sec, ArgsLabel)
           THEN \E done \in {DocstringArgSection(node, sec)} :
                    /\ argSectionFound' = TRUE
                    /\ errors' = errors \o done.errs
                    /\ raised' = done.raises
                    /\ pc' = IF done.raises THEN "done" ELSE "returns"
           ELSE /\ pc' = "returns"
                /\ UNCHANGED <<argSectionFound, errors, raised>>
    /\ UNCHANGED <<node, result, docstring, splitDocstring, i, returnSectionFound,
                   OutsideDocstring>>

\* lines 204-206: the second half, and the step of the loop
SectionReturns ==
    /\ pc = "returns"
    /\ LET sec == splitDocstring[i + 1]
           next == IF i + 1 < Len(splitDocstring) THEN "args" ELSE "final"
       IN  IF Contains(sec, ReturnsLabel)
           THEN \E done \in {DocstringReturnSection(node, sec)} :
                    /\ returnSectionFound' = TRUE
                    /\ errors' = errors \o done.errs
                    /\ raised' = done.raises
                    /\ pc' = IF done.raises THEN "done" ELSE next
                    /\ i' = IF done.raises THEN i ELSE i + 1
           ELSE /\ pc' = next
                /\ i' = i + 1
                /\ UNCHANGED <<returnSectionFound, errors, raised>>
    /\ UNCHANGED <<node, result, docstring, splitDocstring, argSectionFound,
                   OutsideDocstring>>

\* lines 208-220
VerifyDocstringFinish ==
    /\ pc = "final"
    /\ \E final \in {FinalChecks(node, argSectionFound, returnSectionFound)} :
           /\ errors' = errors \o final.errs
           /\ raised' = final.raises
    /\ pc' = "done"
    /\ UNCHANGED <<node, result, varsDocstring, OutsideDocstring>>

NextDocstring ==
    VerifyDocstringEnter \/ SectionArgs \/ SectionReturns \/ VerifyDocstringFinish

SpecDocstring == InitDocstring /\ [][NextDocstring]_vars

-----------------------------------------------------------------------------
(* Properties of verifyDocstring *)

\* the block the loop is at, and its lines as docstringArgSection and
\* docstringReturnSection split them after normalisation
AtBlock == pc \in {"args", "returns"}
CurrentBlock == splitDocstring[i + 1]
CurrentLines == Split(Normalised(CurrentBlock), Newline)

\* the finding of line 240
EmptyArgsFinding == toString(node, MsgArg("argsSectionEmpty", node.name))

\* the first content line of the Args block the loop is at lacks "):"
FirstLineLacksCloser == ~Contains(CurrentLines[2], CloseParenColon)

\* C4: an Args section of a function with at least one content line is
\* rejected iff its first content line lacks "):"; the rejection appends the
\* "Args section is empty" finding and nothing else, and raises nothing.
C4_RejectedIffFirstLineLacksCloser ==
    [][(/\ pc = "args"
        /\ node.t = "FunctionDef"
        /\ Contains(CurrentBlock, ArgsLabel)
        /\ Len(CurrentLines) >= 2)
       => LET added == SubSeq(errors', Len(errors) + 1, Len(errors'))
          IN  /\ (\E k \in 1..Len(added) : added[k] = EmptyArgsFinding)
                     <=> FirstLineLacksCloser
              /\ FirstLineLacksCloser => (added = <<EmptyArgsFinding>> /\ ~raised')]_vars

\* the block "Args:\n    x is\n    x (int): a" of a function has just been
\* rejected
C4_Witness ==
    /\ pc = "returns"
    /\ node.t = "FunctionDef"
    /\ Contains(CurrentBlock, ArgsLabel)
    /\ Len(CurrentLines) >= 3
    /\ FirstLineLacksCloser
    /\ Contains(CurrentLines[3], CloseParenColon)
    /\ errors # <<>>
    /\ errors[Len(errors)] = EmptyArgsFinding

\* the blocks after the description that contain "Args:", what
\* _parseArgLines makes of each, and the names its entries document
ArgBlocks == {j \in 2..Len(splitDocstring) : Contains(splitDocstring[j], ArgsLabel)}
ParsedBlock(j) == ParseArgLines(Normalised(splitDocstring[j]))
Accepted(j) == ParsedBlock(j) # None /\ ParsedBlock(j).v # <<>>
DocumentedIn(j) ==
    LET names == VerifyArgLines(node, ParsedBlock(j).v).docArgs
    IN  {names[k] : k \in 1..Len(names)}

\* number of "not documented" findings that name the parameter
NotDocumentedCount(name) ==
    Len(SelectSeq(OfKind(errors, "notDocumented"), LAMBDA e : e.message.arg = name))

\* C6: the undocumented-parameter check runs once per function: a parameter
\* that is not self-like has exactly one "not documented" finding when no
\* parsed entry of any Args block names it and none when one does, whatever
\* the number of blocks that contain "Args:".
C6_UndocumentedOncePerFunction ==
    (/\ pc = "done"
     /\ ~raised
     /\ node.t = "FunctionDef"
     /\ ArgBlocks # {}
     /\ \A j \in ArgBlocks : Accepted(j))
    => \A k \in 1..Len(node.args) :
           node.args[k].arg \notin SpecialVariables =>
               NotDocumentedCount(node.args[k].arg) =
                   IF \E j \in ArgBlocks : node.args[k].arg \in DocumentedIn(j)
                   THEN 0 ELSE 1

\* the blocks that contain "Returns:" and that docstringReturnSection has
\* been called on
ReturnBlocksDone == {j \in 2..i : Contains(splitDocstring[j], ReturnsLabel)}
BlockLines(j) == Split(Normalised(splitDocstring[j]), Newline)
NoContentLine(j) == Len(BlockLines(j)) < 2
NoTypeDefinition(j) == ~NoContentLine(j) /\ Len(Split(BlockLines(j)[2], Colon)) < 2
WellFormedReturn(j) == ~NoContentLine(j) /\ ~NoTypeDefinition(j)

NoReturnType == node.t = "FunctionDef" /\ node.returns = None

\* C7 as stated: for a function that declares no return type the Returns
\* cross-validation emits no finding, with or without a Returns section.
C7_NoReturnTypeNoFinding ==
    NoReturnType =>
        /\ Count("returnSectionMissing") = 0
        /\ Count("returnTypeDefinitionMissing") = 0
        /\ Count("returnTypeNotDefined") = 0
        /\ Count("returnTypeMismatch") = 0
        /\ Count("returnTypeNotDocumented") = 0

\* C7: for a function that declares no return type, "return type not
\* documented" and the mismatch finding are never emitted, and every block
\* that contains "Returns:" yields exactly one finding: the section is
\* missing (no content line), the type definition is missing (no ":" in the
\* content line), or the return type is not defined (otherwise).
C7_NoReturnTypeOneFindingPerBlock ==
    NoReturnType =>
        /\ Count("returnTypeNotDocumented") = 0
        /\ Count("returnTypeMismatch") = 0
        /\ Count("returnSectionMissing") =
               Cardinality({j \in ReturnBlocksDone : NoContentLine(j)})
        /\ Count("returnTypeDefinitionMissing") =
               Cardinality({j \in ReturnBlocksDone : NoTypeDefinition(j)})
        /\ Count("returnTypeNotDefined") =
               Cardinality({j \in ReturnBlocksDone : WellFormedReturn(j)})

\* def f(x: int) whose docstring has the block "Returns:\n    int: a"
C7_Witness ==
    /\ pc = "done"
    /\ NoReturnType
    /\ \E j \in ReturnBlocksDone : WellFormedReturn(j)
    /\ Count("returnTypeNotDefined") >= 1

\* C8: for a function with a docstring and a declared return type, "return
\* type not documented" is emitted iff no block after the description
\* contains "Returns:" and the reconstructed return type is not the string
\* "None".
C8_NotDocumentedIffNoReturnsBlock ==
    (/\ pc = "done"
     /\ ~raised
     /\ docstring # <<>>
     /\ node.t = "FunctionDef"
     /\ node.returns # None)
    => (Count("returnTypeNotDocumented") = 1
           <=> /\ \A j \in 2..Len(splitDocstring) :
                      ~Contains(splitDocstring[j], ReturnsLabel)
               /\ GetDefinedType(node.returns) # Ret(<<"N", "o", "n", "e">>))

-----------------------------------------------------------------------------
(* Properties of the lines after the loop of _verifySections *)

\* a default that is a plain constant or a unary minus on a numeric constant
ConstantOrNegated(d) ==
    \/ d.t = "Constant"
    \/ d.t = "UnaryOp" /\ d.op = "USub" /\ d.operand.t = "Constant"
                       /\ d.operand.value.ty = "int"

\* no clause of the description is cut short by the strip of a clause of
\* spaces
NoBlankClause == \A k \in 1..Len(Clauses) : Clauses[k] = <<>> \/ Strip(Clauses[k]) # <<>>

SomeClauseDocumentsDefault == \E k \in 1..Len(Clauses) : DocumentsDefault(k)

\* C11: with a matched default that is a plain constant or a unary minus on a
\* numeric constant and no clause that contains "defaults to",
\* _verifySections completes and emits exactly one "default value not
\* reflected" finding; with such a clause, or with no default, it emits none.
C11_DefaultNotReflected ==
    (pc = "done" /\ NoBlankClause) =>
        /\ (/\ correspondingDefault # None
            /\ ConstantOrNegated(correspondingDefault)
            /\ ~SomeClauseDocumentsDefault)
           => (~raised /\ Count("defaultNotReflected") = 1)
        /\ (correspondingDefault = None \/ SomeClauseDocumentsDefault)
           => Count("defaultNotReflected") = 0

-----------------------------------------------------------------------------
(* Specification of a call of _getDefinedType on a drawn annotation *)

MaxDepth == 1       \* nesting depth of a drawn annotation

\* int, a.b.C, None, 5 and g(): the leaves of a drawn annotation
DottedName == Attribute(Attribute(Name(<<"a">>), <<"b">>), <<"C">>)
Leaves == {TypeInt, DottedName, Constant(PyNone), Constant(PyInt(5)), OtherExpr}

\* the annotations nested at most d deep: unions, subscripts, tuples of two
\* and list literals of one or two
RECURSIVE AnnotationsUpTo(_)
AnnotationsUpTo(d) ==
    IF d = 0 THEN Leaves
    ELSE LET S == AnnotationsUpTo(d - 1)
         IN  S \cup {BinOp(l, r) : l \in S, r \in S}
               \cup {Subscript(v, sl) : v \in S, sl \in S}
               \cup {TupleOf(<<a, b>>) : a \in S, b \in S}
               \cup {ListOf(<<a>>) : a \in S}
               \cup {ListOf(<<a, b>>) : a \in S, b \in S}

InitDefinedType ==
    /\ pc = "call"
    /\ errors = <<>>
    /\ raised = FALSE
    /\ node = FunctionF
    /\ result = None
    /\ IdleArgDefault /\ IdleParse /\ IdleSections /\ IdleArgLines /\ IdleDocstring
    /\ IdleFile /\ IdleRepl
    /\ annotationArg \in AnnotationsUpTo(MaxDepth)

\* lines 492-514: the call returns a str or None, or an exception leaves it
CallGetDefinedType ==
    /\ pc = "call"
    /\ \E definedType \in {GetDefinedType(annotationArg)} :
           IF definedType = Raise
           THEN raised' = TRUE /\ UNCHANGED result
           ELSE result' = definedType /\ UNCHANGED raised
    /\ pc' = "done"
    /\ UNCHANGED <<errors, node, annotationArg, varsArgDefault, varsParse, varsSections,
                   varsArgLines, varsDocstring, varsFile, varsRepl>>

NextDefinedType == CallGetDefinedType

SpecDefinedType == InitDefinedType /\ [][NextDefinedType]_vars

\* an expression that _getDefinedType has a branch for, with the outer
\* expression of every subscript a simple name, all the way down
RECURSIVE Supported(_)
Supported(e) ==
    IF e.t = "Name" \/ e.t = "Constant" THEN TRUE
    ELSE IF e.t = "Attribute" THEN (e.value.t \in {"Name", "Attribute"}) /\ Supported(e.value)
    ELSE IF e.t = "Subscript" THEN e.value.t = "Name" /\ Supported(e.slice)
    ELSE IF e.t = "BinOp" THEN Supported(e.left) /\ Supported(e.right)
    ELSE IF e.t \in {"Tuple", "List"} THEN \A k \in 1..Len(e.elts) : Supported(e.elts[k])
    ELSE FALSE

\* C12: _getDefinedType raises no error and returns a string or
\* undeterminable; an annotation with a subscript of something other than a
\* simple name, or with an unsupported shape anywhere in it, yields
\* undeterminable.
C12_NeverRaises ==
    pc = "done" =>
        /\ ~raised
        /\ result = None \/ result.t = "str"
        /\ ~Supported(annotationArg) => result = None

\* the reference rendering of an annotation: a name is its id, an attribute
\* access is its value, a dot and its attr, a constant is its textual value
RECURSIVE Render(_), RenderAll(_, _, _)
Render(e) ==
    IF e.t = "Name" THEN e.id
    ELSE IF e.t = "Attribute" THEN Render(e.value) \o <<".">> \o e.attr
    ELSE IF e.t = "Constant" THEN Str(e.value)
    ELSE IF e.t = "Subscript" THEN Render(e.value) \o <<"[">> \o Render(e.slice) \o <<"]">>
    ELSE IF e.t = "BinOp" THEN Render(e.left) \o <<"|">> \o Render(e.right)
    ELSE IF e.t = "Tuple" THEN RenderAll(e.elts, <<",", " ">>, 1)
    ELSE <<"[">> \o RenderAll(e.elts, <<",">>, 1) \o <<"]">>

\* the renderings of the elements from position k on, sep between them
RenderAll(elts, sep, k) ==
    IF k > Len(elts) THEN <<>>
    ELSE Render(elts[k]) \o (IF k < Len(elts) THEN sep ELSE <<>>)
             \o RenderAll(elts, sep, k + 1)

\* C13: on an annotation built only from names, attribute chains, subscripts
\* of a name, unions, tuples, list literals and constants, _getDefinedType
\* returns the reference rendering: Left|Right, tuple elements joined by
\* ", " without brackets, Outer[Inner], "[" elements joined by "," "]", the
\* text of a constant, and an attribute chain root-first and dot-joined.
C13_EqualsReferenceRendering ==
    (pc = "done" /\ Supported(annotationArg)) =>
        (~raised /\ result = Ret(Render(annotationArg)))

\* the tuple (a.b.C, int) was rendered as "a.b.C, int"
C13_Witness ==
    /\ pc = "done"
    /\ Supported(annotationArg)
    /\ annotationArg.t = "Tuple"
    /\ annotationArg.elts[1] = DottedName
    /\ result = Ret(<<"a", ".", "b", ".", "C", ",", " ", "i", "n", "t">>)

-----------------------------------------------------------------------------
(* Properties of the description of an entry in _verifyArgLines *)

\* the findings that _verifySections appends
ValidatorKinds ==
    {"emptySection", "capitalLetter", "endsWithPeriod", "containsColon",
     "defaultMismatch", "defaultDocumentedNoDefault", "defaultNotReflected"}

\* the reached entries "name (type): description" whose name is a parameter's
\* and that no other entry shares
MatchedEntries ==
    {k \in Reached :
        /\ Documents(argLines[k])
        /\ \A j \in 1..Len(argLines) :
              (j # k /\ OpenAt(argLines[j]) # 0) =>
                  EntryName(argLines[j]) # EntryName(argLines[k])}

\* C14: for an entry whose name matches a parameter, the description is the
\* remainder after "):"; an empty description produces exactly one finding,
\* "description not provided", and is not forwarded to the sentence-format
\* validator; a non-empty description does not produce that finding.
C14_EmptyDescriptionOneFinding ==
    (pc = "done" /\ ~raised) =>
        \A k \in MatchedEntries :
            LET e == argLines[k]
                found == FindingsFor(EntryName(e))
            IN  IF EntryDescription(e) = <<>>
                THEN /\ Len(SelectSeq(found,
                                LAMBDA f : f.message.kind = "descriptionMissing")) = 1
                     /\ KindsFor(EntryName(e)) \cap ValidatorKinds = {}
                ELSE "descriptionMissing" \notin KindsFor(EntryName(e))

-----------------------------------------------------------------------------
(* CodeChecker.isValidFormat, isPascalCase, isSnakeCase *)

NAME_MANGLE == <<"_", "_">>
Underscore == <<"_">>

\* self.special_methods
SpecialMethods ==
    { <<"_", "_", "i", "n", "i", "t", "_", "_">>,
      <<"_", "_", "d", "e", "l", "_", "_">>,
      <<"_", "_", "r", "e", "p", "r", "_", "_">>,
      <<"_", "_", "s", "t", "r", "_", "_">>,
      <<"_", "_", "b", "y", "t", "e", "s", "_", "_">>,
      <<"_", "_", "f", "o", "r", "m", "a", "t", "_", "_">>,
      <<"_", "_", "l", "t", "_", "_">>,
      <<"_", "_", "l", "e", "_", "_">>,
      <<"_", "_", "e", "q", "_", "_">>,
      <<"_", "_", "n", "e", "_", "_">>,
      <<"_", "_", "g", "t", "_", "_">>,
      <<"_", "_", "g", "e", "_", "_">>,
      <<"_", "_", "h", "a", "s", "h", "_", "_">>,
      <<"_", "_", "b", "o", "o", "l", "_", "_">>,
      <<"_", "_", "c", "a", "l", "l", "_", "_">>,
      <<"_", "_", "l", "e", "n", "_", "_">>,
      <<"_", "_", "g", "e", "t", "i", "t", "e", "m", "_", "_">>,
      <<"_", "_", "s", "e", "t", "i", "t", "e", "m", "_", "_">>,
      <<"_", "_", "d", "e", "l", "i", "t", "e", "m", "_", "_">>,
      <<"_", "_", "i", "t", "e", "r", "_", "_">>,
      <<"_", "_", "n", "e", "x", "t", "_", "_">>,
      <<"_", "_", "r", "e", "v", "e", "r", "s", "e", "d", "_", "_">>,
      <<"_", "_", "c", "o", "n", "t", "a", "i", "n", "s", "_", "_">>,
      <<"_", "_", "a", "d", "d", "_", "_">>,
      <<"_", "_", "s", "u", "b", "_", "_">>,
      <<"_", "_", "m", "u", "l", "_", "_">>,
      <<"_", "_", "m", "a", "t", "m", "u", "l", "_", "_">>,
      <<"_", "_", "t", "r", "u", "e", "d", "i", "v", "_", "_">>,
      <<"_", "_", "f", "l", "o", "o", "r", "d", "i", "v", "_", "_">>,
      <<"_", "_", "m", "o", "d", "_", "_">>,
      <<"_", "_", "d", "i", "v", "m", "o", "d", "_", "_">>,
      <<"_", "_", "p", "o", "w", "_", "_">>,
      <<"_", "_", "l", "s", "h", "i", "f", "t", "_", "_">>,
      <<"_", "_", "r", "s", "h", "i", "f", "t", "_", "_">>,
      <<"_", "_", "a", "n", "d", "_", "_">>,
      <<"_", "_", "x", "o", "r", "_", "_">>,
      <<"_", "_", "o", "r", "_", "_">>,
      <<"_", "_", "i", "a", "d", "d", "_", "_">>,
      <<"_", "_", "i", "s", "u", "b", "_", "_">>,
      <<"_", "_", "i", "m", "u", "l", "_", "_">>,
      <<"_", "_", "i", "m", "a", "t", "m", "u", "l", "_", "_">>,
      <<"_", "_", "i", "t", "r", "u", "e", "d", "i", "v", "_", "_">>,
      <<"_", "_", "i", "f", "l", "o", "o", "r", "d", "i", "v", "_", "_">>,
      <<"_", "_", "i", "m", "o", "d", "_", "_">>,
      <<"_", "_", "i", "p", "o", "w", "_", "_">>,
      <<"_", "_", "i", "l", "s", "h", "i", "f", "t", "_", "_">>,
      <<"_", "_", "i", "r", "s", "h", "i", "f", "t", "_", "_">>,
      <<"_", "_", "i", "a", "n", "d", "_", "_">>,
      <<"_", "_", "i", "x", "o", "r", "_", "_">>,
      <<"_", "_", "i", "o", "r", "_", "_">>,
      <<"_", "_", "n", "e", "g", "_", "_">>,
      <<"_", "_", "p", "o", "s", "_", "_">>,
      <<"_", "_", "a", "b", "s", "_", "_">>,
      <<"_", "_", "i", "n", "v", "e", "r", "t", "_", "_">>,
      <<"_", "_", "c", "o", "m", "p", "l", "e", "x", "_", "_">>,
      <<"_", "_", "i", "n", "t", "_", "_">>,
      <<"_", "_", "f", "l", "o", "a", "t", "_", "_">>,
      <<"_", "_", "r", "o", "u", "n", "d", "_", "_">>,
      <<"_", "_", "i", "n", "d", "e", "x", "_", "_">>,
      <<"_", "_", "e", "n", "t", "e", "r", "_", "_">>,
      <<"_", "_", "e", "x", "i", "t", "_", "_">>,
      <<"_", "_", "a", "w", "a", "i", "t", "_", "_">>,
      <<"_", "_", "a", "i", "t", "e", "r", "_", "_">>,
      <<"_", "_", "a", "n", "e", "x", "t", "_", "_">>,
      <<"_", "_", "a", "e", "n", "t", "e", "r", "_", "_">>,
      <<"_", "_", "a", "e", "x", "i", "t", "_", "_">>,
      <<"_", "_", "v", "e", "r", "s", "i", "o", "n", "_", "_">>,
      <<"_", "_", "n", "e", "w", "_", "_">> }

IsDigit(c) == \E k \in 1..Len(Digits) : Digits[k] = c
IsAlnum(c) == IsAlpha(c) \/ IsDigit(c)

\* str.islower, str.isupper: a cased character, and none of the other case
StrIsLower(s) ==
    /\ \E k \in 1..Len(s) : IsLower(s[k])
    /\ \A k \in 1..Len(s) : ~IsUpper(s[k])
StrIsUpper(s) ==
    /\ \E k \in 1..Len(s) : IsUpper(s[k])
    /\ \A k \in 1..Len(s) : ~IsLower(s[k])

\* str.isalnum
StrIsAlnum(s) == s # <<>> /\ \A k \in 1..Len(s) : IsAlnum(s[k])

\* re.match(r'^[A-Z][A-Za-z0-9]+(?:[A-Z][a-z0-9]*)*$', name): an uppercase
\* letter, then one or more letters and digits
IsPascalCase(name) ==
    /\ Len(name) >= 2
    /\ IsUpper(name[1])
    /\ \A k \in 2..Len(name) : IsAlnum(name[k])

IsSnakeCase(name) ==
    IF Contains(name, Underscore)
    THEN LET parts == Split(name, Underscore)
         IN  IF \E k \in 1..Len(parts) : parts[k] # <<>> /\ ~StrIsLower(parts[k])
             THEN FALSE
             ELSE ~Contains(name, NAME_MANGLE)
    ELSE StrIsLower(name) /\ StrIsAlnum(name)

\* the names that hasattr finds on CodeChecker, ast.NodeVisitor or object,
\* among the names of the drawn declarations
InheritedNames == { <<"v", "i", "s", "i", "t">> }

\* varType is None (FALSE) or 'class' (TRUE)
IsValidFormat(name, varType, ignored) ==
    IF name \in InheritedNames THEN TRUE
    ELSE IF InList(name, ignored) THEN TRUE
    ELSE IF StrIsUpper(name) THEN TRUE
    ELSE IF name # <<>> /\ name[1] = "_" THEN TRUE
    ELSE IF varType THEN IsPascalCase(name)
    ELSE IsSnakeCase(name)

-----------------------------------------------------------------------------
(* CodeChecker.loadItemsToIgnore *)

ITEMS_TO_IGNORE_SYMBOL == "!"

\* s.strip(ITEMS_TO_IGNORE_SYMBOL)
RECURSIVE StripSymbol(_)
StripSymbol(s) ==
    IF s # <<>> /\ Head(s) = ITEMS_TO_IGNORE_SYMBOL THEN StripSymbol(Tail(s))
    ELSE IF s # <<>> /\ s[Len(s)] = ITEMS_TO_IGNORE_SYMBOL
    THEN StripSymbol(SubSeq(s, 1, Len(s) - 1))
    ELSE s

\* the list comprehension over the lines of the ignore file, from line k on
RECURSIVE LoadItemsToIgnore(_, _)
LoadItemsToIgnore(fileLines, k) ==
    IF k > Len(fileLines) THEN <<>>
    ELSE (IF Strip(fileLines[k]) # <<>> /\ Head(fileLines[k]) = ITEMS_TO_IGNORE_SYMBOL
          THEN <<StripSymbol(Strip(fileLines[k]))>>
          ELSE <<>>) \o LoadItemsToIgnore(fileLines, k + 1)

-----------------------------------------------------------------------------
(* CodeChecker.verifyDocstring as one call *)

NoFindings == [errs |-> <<>>, raises |-> FALSE]

\* lines 199-220: the loop over the blocks from block j on, then the final
\* checks
RECURSIVE BlocksLoop(_, _, _, _, _)
BlocksLoop(n, split, j, argFound, returnFound) ==
    IF j > Len(split) THEN FinalChecks(n, argFound, returnFound)
    ELSE LET hasArgs == Contains(split[j], ArgsLabel)
             hasReturns == Contains(split[j], ReturnsLabel)
             Rest(sofar, rest) == [errs |-> sofar \o rest.errs, raises |-> rest.raises]
             AfterReturns(sofar, returned) ==
                 IF returned.raises THEN [errs |-> sofar \o returned.errs, raises |-> TRUE]
                 ELSE Rest(sofar \o returned.errs,
                           BlocksLoop(n, split, j + 1, argFound \/ hasArgs,
                                      returnFound \/ hasReturns))
             AfterArgs(done) ==
                 IF done.raises THEN [errs |-> done.errs, raises |-> TRUE]
                 ELSE AfterReturns(done.errs,
                                   IF hasReturns THEN DocstringReturnSection(n, split[j])
                                   ELSE NoFindings)
         IN  AfterArgs(IF hasArgs THEN DocstringArgSection(n, split[j]) ELSE NoFindings)

VerifyDocstring(n, doc) ==
    IF doc = <<>>
    THEN [errs |-> <<toString(n, MsgArg("missingDocstring", n.name))>>, raises |-> FALSE]
    ELSE LET Checked(split, loop) ==
                 [errs |-> DocstringDescriptionCheck(n, split[1]) \o loop.errs,
                  raises |-> loop.raises]
             Blocked(split) == Checked(split, BlocksLoop(n, split, 2, FALSE, FALSE))
         IN  Blocked(Split(doc, BlankLine))

-----------------------------------------------------------------------------
(* CodeChecker.visit_FunctionDef, visit_ClassDef, visit_Name *)

\* the loop over node.args.args, from parameter k on
RECURSIVE ParameterFindings(_, _, _)
ParameterFindings(n, ignored, k) ==
    IF k > Len(n.args) THEN <<>>
    ELSE LET arg == n.args[k]
         IN  (IF /\ arg.annotation = None
                 /\ arg.arg \notin SpecialVariables
                 /\ ~Contains(arg.arg, <<"*">>)
                 /\ ~Contains(arg.arg, <<"*", "*">>)
              THEN <<toString(n, [kind |-> "parameterWithoutAnnotation",
                                  name |-> n.name, arg |-> arg.arg])>>
              ELSE <<>>)
             \o (IF ~IsValidFormat(arg.arg, FALSE, ignored)
                 THEN <<toString(n, [kind |-> "parameterNotSnakeCase",
                                     name |-> n.name, arg |-> arg.arg])>>
                 ELSE <<>>)
             \o ParameterFindings(n, ignored, k + 1)

\* the loop over node.args.defaults, from default k on
RECURSIVE MutableDefaultFindings(_, _)
MutableDefaultFindings(n, k) ==
    IF k > Len(n.defaults) THEN <<>>
    ELSE (IF n.defaults[k].t \in {"Dict", "List", "Set"}
          THEN <<toString(n, MsgArg("mutableDefault", n.name))>>
          ELSE <<>>) \o MutableDefaultFindings(n, k + 1)

\* lines 134-153, after verifyDocstring
FunctionFindings(n, ignored) ==
    (IF ~IsValidFormat(n.name, FALSE, ignored)
     THEN <<toString(n, MsgArg("functionNotSnakeCase", n.name))>>
     ELSE <<>>)
    \o (IF /\ Contains(n.name, NAME_MANGLE)
           /\ n.name \notin SpecialMethods
           /\ ~InList(n.name, ignored)
        THEN <<toString(n, MsgArg("functionNameMangle", n.name))>>
        ELSE <<>>)
    \o ParameterFindings(n, ignored, 1)
    \o MutableDefaultFindings(n, 1)
    \o (IF n.returns = None
        THEN <<toString(n, MsgArg("missingReturnAnnotation", n.name))>>
        ELSE <<>>)

\* visit_FunctionDef up to generic_visit
VisitFunctionDef(n, doc, ignored) ==
    LET Checked(documented) ==
            IF documented.raises THEN documented
            ELSE [errs |-> documented.errs \o FunctionFindings(n, ignored),
                  raises |-> FALSE]
    IN  Checked(VerifyDocstring(n, doc))

\* visit_ClassDef up to generic_visit
VisitClassDef(n, doc, ignored) ==
    LET Checked(named, documented) ==
            [errs |-> named \o documented.errs, raises |-> documented.raises]
    IN  Checked(IF ~IsValidFormat(n.name, TRUE, ignored)
                THEN <<toString(n, MsgArg("classNotPascalCase", n.name))>>
                ELSE <<>>,
                VerifyDocstring(n, doc))

\* visit_Name up to generic_visit
VisitName(n, ignored) ==
    IF n.ctx \in {"Store", "Param"}
    THEN [errs |->
              (IF /\ Contains(n.id, NAME_MANGLE)
                  /\ n.id \notin SpecialMethods
                  /\ ~InList(n.id, ignored)
               THEN <<toString(n, MsgArg("variableNameMangle", n.id))>>
               ELSE <<>>)
              \o (IF ~IsValidFormat(n.id, FALSE, ignored)
                  THEN <<toString(n, MsgArg("variableNotCamelCase", n.id))>>
                  ELSE <<>>),
          raises |-> FALSE]
    ELSE NoFindings

\* NodeVisitor.visit: the visitor of the node's class
Visit(n, doc, ignored) ==
    IF n.t = "FunctionDef" THEN VisitFunctionDef(n, doc, ignored)
    ELSE IF n.t = "ClassDef" THEN VisitClassDef(n, doc, ignored)
    ELSE VisitName(n, ignored)

-----------------------------------------------------------------------------
(* Specification of checkFile, called twice on a drawn file, one visited    *)
(* node a step                                                              *)

MaxNodes == 2       \* most visited nodes of a drawn file

\* a slip: the findings list is shared with the checker of an earlier call
SharedErrors(previous) == previous

\* line 20: self.errors = [], whatever the list of an earlier checker holds
NewErrors(previous) == <<>>

\* a slip: the findings of a visit are put in front of the list
Prepended(list, findings) == findings \o list

\* self.errors.append, for the findings of one visit in the order they arise
Appended(list, findings) == list \o findings

StoredName(id) == [t |-> "Name", id |-> id, ctx |-> "Store", lineno |-> 1]

\* the nodes that have a visitor, each with its docstring: generic_visit is
\* the last statement of every visitor, so the visits follow the pre-order
FileNodes ==
    { \* def f(x: int) -> int, fully documented
      [decl |-> FunctionDef(<<"f">>, <<ArgX>>, <<>>, TypeInt),
       doc |-> <<"D", "o", " ", "i", "t", ".", "\n", "\n", "A", "r", "g", "s", ":",
          "\n", " ", " ", " ", " ", "x", " ", "(", "i", "n", "t", ")", ":",
          " ", "a", "\n", "\n", "R", "e", "t", "u", "r", "n", "s", ":", "\n",
          " ", " ", " ", " ", "i", "n", "t", ":", " ", "a">>],
      \* def Bad(y), no docstring
      [decl |-> FunctionDef(<<"B", "a", "d">>, <<Arg(<<"y">>, None, 9, 1)>>, <<>>, None),
       doc |-> <<>>],
      \* def a__b(x: int) -> None, description without capital and period
      [decl |-> FunctionDef(<<"a", "_", "_", "b">>, <<ArgX>>, <<>>, Constant(PyNone)),
       doc |-> <<"d", "o", " ", "i", "t">>],
      \* def visit(self) -> g(), with a Returns section
      [decl |-> FunctionDef(<<"v", "i", "s", "i", "t">>,
                            <<Arg(<<"s", "e", "l", "f">>, None, 14, 1)>>, <<>>, OtherExpr),
       doc |-> <<"D", "o", " ", "i", "t", ".", "\n", "\n", "R", "e", "t", "u", "r",
          "n", "s", ":", "\n", " ", " ", " ", " ", "i", "n", "t", ":", " ",
          "a">>],
      \* def f(x: a.b[int]) -> int, with an Args section
      [decl |-> FunctionDef(<<"f">>,
                            <<Arg(<<"x">>,
                                  Subscript(Attribute(Name(<<"a">>), <<"b">>), TypeInt),
                                  18, 1)>>,
                            <<>>, TypeInt),
       doc |-> <<"D", "o", " ", "i", "t", ".", "\n", "\n", "A", "r", "g", "s", ":",
          "\n", " ", " ", " ", " ", "x", " ", "(", "i", "n", "t", ")", ":",
          " ", "a">>],
      \* class c, no docstring
      [decl |-> ClassDef(<<"c">>), doc |-> <<>>],
      \* class Cls, documented
      [decl |-> ClassDef(<<"C", "l", "s">>),
       doc |-> <<"A", " ", "c", "l", "a", "s", "s", ".">>],
      \* my__v = ...
      [decl |-> StoredName(<<"m", "y", "_", "_", "v">>), doc |-> <<>>] }

\* the k-th visited node is on line k
Numbered(ns) ==
    [k \in 1..Len(ns) |-> [decl |-> [ns[k].decl EXCEPT !.lineno = k], doc |-> ns[k].doc]]

\* the lines of .standardignore
IgnoreFiles ==
    { <<>>,
      << <<"!", "B", "a", "d", "\n">>, <<"#", " ", "c", "\n">> >>,
      << <<"*", ".", "t", "x", "t", "\n">>, <<"!", "a", "_", "_", "b", "\n">> >> }

InitFile ==
    /\ pc = "call"
    /\ errors = <<>>
    /\ raised = FALSE
    /\ node = None
    /\ result = None
    /\ IdleArgDefault /\ IdleParse /\ IdleSections /\ IdleArgLines /\ IdleDocstring
    /\ IdleType /\ IdleRepl
    /\ tree \in {Numbered(ns) : ns \in SeqsUpTo(FileNodes, MaxNodes)}
    /\ ignoreFile \in IgnoreFiles
    /\ itemsToIgnore = <<>>
    /\ visitIdx = 0
    /\ run = 1
    /\ firstResult = None

OutsideFile ==
    <<varsArgDefault, varsParse, varsSections, varsArgLines, varsDocstring, varsType,
      varsRepl>>

\* lines 562-564: the file is parsed and a checker is constructed
CheckFileOpen ==
    /\ pc = "call"
    /\ errors' = NewErrors(errors)
    /\ itemsToIgnore' = LoadItemsToIgnore(ignoreFile, 1)
    /\ visitIdx' = 1
    /\ pc' = "visit"
    /\ UNCHANGED <<raised, node, result, tree, ignoreFile, run, firstResult, OutsideFile>>

\* line 565: the visit of the next node; an exception leaves checkFile
VisitNext ==
    /\ pc = "visit"
    /\ visitIdx <= Len(tree)
    /\ node' = tree[visitIdx].decl
    /\ \E visited \in {Visit(tree[visitIdx].decl, tree[visitIdx].doc, itemsToIgnore)} :
           /\ errors' = Appended(errors, visited.errs)
           /\ IF visited.raises
              THEN raised' = TRUE /\ pc' = "raised" /\ UNCHANGED visitIdx
              ELSE visitIdx' = visitIdx + 1 /\ UNCHANGED <<raised, pc>>
    /\ UNCHANGED <<result, tree, ignoreFile, itemsToIgnore, run, firstResult, OutsideFile>>

\* line 566
CheckFileReturn ==
    /\ pc = "visit"
    /\ visitIdx > Len(tree)
    /\ result' = PyList(errors)
    /\ pc' = "returned"
    /\ UNCHANGED <<errors, raised, node, tree, ignoreFile, itemsToIgnore, visitIdx, run,
                   firstResult, OutsideFile>>

\* the same file is checked once more
CheckFileAgain ==
    /\ pc = "returned"
    /\ run = 1
    /\ firstResult' = result
    /\ run' = 2
    /\ pc' = "call"
    /\ UNCHANGED <<errors, raised, node, result, tree, ignoreFile, itemsToIgnore, visitIdx,
                   OutsideFile>>

NextFile == CheckFileOpen \/ VisitNext \/ CheckFileReturn \/ CheckFileAgain

SpecFile == InitFile /\ [][NextFile]_vars

-----------------------------------------------------------------------------
(* Properties of checkFile *)

IsPrefix(a, b) == Len(a) <= Len(b) /\ SubSeq(b, 1, Len(a)) = a

\* C15: during a check of a file the findings sequence only grows by
\* appending: across every visit the previous sequence is a prefix of the
\* new one, every finding the visit adds is a finding of the visited node,
\* and every finding already there is of a node visited earlier.
C15_FindingsOnlyAppended ==
    [][pc = "visit" =>
          /\ IsPrefix(errors, errors')
          /\ visitIdx <= Len(tree) =>
                /\ \A q \in (Len(errors) + 1)..Len(errors') :
                       errors'[q].lineno = tree[visitIdx].decl.lineno
                /\ \A p \in 1..Len(errors) :
                       errors'[p].lineno < tree[visitIdx].decl.lineno]_vars

\* the findings of the first visited node are followed by those of the second
C15_Witness ==
    /\ pc = "visit"
    /\ visitIdx = 3
    /\ \E p \in 1..Len(errors) : errors[p].lineno = 1
    /\ \E q \in 1..Len(errors) : errors[q].lineno = 2
    /\ \A p, q \in 1..Len(errors) : p < q => errors[p].lineno <= errors[q].lineno

\* C16: the second call of checkFile on the unchanged file with the
\* unchanged ignore file returns the findings of the first, element by
\* element and in the same order.
C16_SecondRunEqualsFirst ==
    (pc = "returned" /\ run = 2) =>
        /\ Len(result.v) = Len(firstResult.v)
        /\ \A k \in 1..Len(result.v) : result.v[k] = firstResult.v[k]

\* both calls returned findings of two nodes
C16_Witness ==
    /\ pc = "returned"
    /\ run = 2
    /\ Len(tree) = 2
    /\ \E k \in 1..Len(result.v) : result.v[k].lineno = 1
    /\ \E k \in 1..Len(result.v) : result.v[k].lineno = 2
    /\ firstResult = result

-----------------------------------------------------------------------------
(* replacement.py: the summaries and the problem lists *)

\* the value of a local name that no assignment has bound yet
Unbound == [t |-> "Unbound"]

\* one line of an entry: a problem of a function or class, or the first line
\* of an entry ("Class c on line 1:", "Function f on line 2:", "Variable ...")
Problem(kind, name, param) == [kind |-> kind, name |-> name, param |-> param]
Header(kind, name, lineno) == [kind |-> kind, name |-> name, lineno |-> lineno]

is_mutable_default(default) == default.t \in {"List", "Dict", "Set"}

\* lines 31-34: the comprehension over node.args.args, from parameter k on
RECURSIVE ParamsMissingHints(_, _)
ParamsMissingHints(args, k) ==
    IF k > Len(args) THEN <<>>
    ELSE (IF args[k].arg \notin SpecialVariables /\ args[k].annotation = None
          THEN <<args[k].arg>>
          ELSE <<>>) \o ParamsMissingHints(args, k + 1)

\* line 36: the comprehension over zip(node.args.args, node.args.defaults),
\* from pair k on; zip pairs the k-th parameter with the k-th default
RECURSIVE MutableDefaults(_, _, _)
MutableDefaults(args, defaults, k) ==
    IF k > Len(args) \/ k > Len(defaults) THEN <<>>
    ELSE (IF is_mutable_default(defaults[k]) THEN <<args[k].arg>> ELSE <<>>)
         \o MutableDefaults(args, defaults, k + 1)

\* n.doc is ast.get_docstring(n): None or a str
create_function_summary(n) ==
    [function_name |-> n.decl.name,
     return_hint_missing |-> n.decl.returns = None,
     params_missing_hints |-> ParamsMissingHints(n.decl.args, 1),
     params_with_mutable_defaults |-> MutableDefaults(n.decl.args, n.decl.defaults, 1),
     has_docstring |-> n.doc # None,
     docstring |-> IF n.doc # None THEN n.doc.s ELSE <<>>]

\* the comprehension over the FunctionDef nodes of node.body, from node k on
RECURSIVE FunctionSummaries(_, _)
FunctionSummaries(body, k) ==
    IF k > Len(body) THEN <<>>
    ELSE (IF body[k].decl.t = "FunctionDef"
          THEN <<create_function_summary(body[k])>>
          ELSE <<>>) \o FunctionSummaries(body, k + 1)

create_class_summary(n) ==
    [class_name |-> n.decl.name,
     func_summaries |-> FunctionSummaries(n.decl.body, 1),
     has_docstring |-> n.doc # None,
     docstring |-> IF n.doc # None THEN n.doc.s ELSE <<>>]

\* the comprehension over the lines of the ignore file, the one of
\* CodeChecker.loadItemsToIgnore with ignoreSymbol = '!'
load_items_to_ignore(fileLines) == LoadItemsToIgnore(fileLines, 1)

\* the module-level functions have the bodies of the CodeChecker methods
isPascalCase(name) == IsPascalCase(name)
isSnakeCase(name) == IsSnakeCase(name)

is_valid_format(name, is_class, ignored) ==
    IF InList(name, ignored) THEN TRUE
    ELSE IF StrIsUpper(name) THEN TRUE
    ELSE IF name # <<>> /\ name[1] = "_" THEN TRUE
    ELSE IF is_class THEN isPascalCase(name)
    ELSE isSnakeCase(name)

\* one problem of the given kind for every name of params, in order
ProblemPerParam(kind, func_name, params) ==
    [k \in 1..Len(params) |-> Problem(kind, func_name, params[k])]

identify_func_problems(func_sum, ignored) ==
    ProblemPerParam("needsAnnotation", func_sum.function_name,
                    func_sum.params_missing_hints)
    \o ProblemPerParam("mutableDefault", func_sum.function_name,
                       func_sum.params_with_mutable_defaults)
    \o (IF ~func_sum.has_docstring
        THEN <<Problem("functionMissingDocstring", func_sum.function_name, <<>>)>>
        ELSE <<>>)
    \o (IF ~is_valid_format(func_sum.function_name, FALSE, ignored)
        THEN <<Problem("functionNameNotValid", func_sum.function_name, <<>>)>>
        ELSE <<>>)

\* lines 61-63: the problems of the methods, from summary k on
RECURSIVE MethodProblems(_, _, _)
MethodProblems(func_summaries, ignored, k) ==
    IF k > Len(func_summaries) THEN <<>>
    ELSE identify_func_problems(func_summaries[k], ignored)
         \o MethodProblems(func_summaries, ignored, k + 1)

identify_class_problems(class_sum, ignored) ==
    (IF ~class_sum.has_docstring
     THEN <<Problem("classMissingDocstring", class_sum.class_name, <<>>)>>
     ELSE <<>>)
    \o (IF ~is_valid_format(class_sum.class_name, TRUE, ignored)
        THEN <<Problem("classNameNotValid", class_sum.class_name, <<>>)>>
        ELSE <<>>)
    \o MethodProblems(class_sum.func_summaries, ignored, 1)

\* the list '\n\t'.join receives: the lines of one entry of fileProblems
EntryLines(header, problems) == <<header>> \o problems

-----------------------------------------------------------------------------
(* replacement.py: check_file *)

ClassWithBody(name, body) ==
    [t |-> "ClassDef", name |-> name, lineno |-> 1, body |-> body]
Assign(targets) == [t |-> "Assign", targets |-> targets, lineno |-> 1]

DocText == Ret(<<"D", "o", "c", ".">>)

\* the statements of tree.body, each with its docstring; no function or class
\* body holds an assignment, so ast.walk meets the Assign nodes in body order
BodyNodes ==
    { \* def good(x: int) -> int, documented
      [decl |-> FunctionDef(<<"g", "o", "o", "d">>, <<ArgX>>, <<>>, TypeInt),
       doc |-> DocText],
      \* def Bad(y), no docstring
      [decl |-> FunctionDef(<<"B", "a", "d">>, <<Arg(<<"y">>, None, 9, 1)>>, <<>>, None),
       doc |-> None],
      \* def g(z: int = []) -> int, documented
      [decl |-> FunctionDef(<<"g">>, <<Arg(<<"z">>, TypeInt, 12, 1)>>, <<ListOf(<<>>)>>,
                            TypeInt),
       doc |-> DocText],
      \* class c, no docstring, no method
      [decl |-> ClassWithBody(<<"c">>, <<>>), doc |-> None],
      \* class Cls, documented, with def m(self, p) that has no docstring
      [decl |-> ClassWithBody(<<"C", "l", "s">>,
                    << [decl |-> FunctionDef(<<"m">>,
                                    <<Arg(<<"s", "e", "l", "f">>, None, 14, 2),
                                      Arg(<<"p">>, None, 17, 2)>>, <<>>, None),
                        doc |-> None] >>),
       doc |-> DocText],
      \* class Ok, documented, no method
      [decl |-> ClassWithBody(<<"O", "k">>, <<>>), doc |-> DocText],
      \* my__v = ...
      [decl |-> Assign(<<Name(<<"m", "y", "_", "_", "v">>)>>), doc |-> None] }

InitReplacement ==
    /\ pc = "call"
    /\ errors = <<>>
    /\ raised = FALSE
    /\ node = None
    /\ result = None
    /\ IdleArgDefault /\ IdleParse /\ IdleSections /\ IdleArgLines /\ IdleDocstring
    /\ IdleType
    /\ tree \in {Numbered(ns) : ns \in SeqsUpTo(BodyNodes, MaxNodes)}
    /\ ignoreFile \in IgnoreFiles
    /\ itemsToIgnore = <<>>
    /\ visitIdx = 0
    /\ run = 0
    /\ firstResult = None
    /\ class_problems = Unbound
    /\ fileProblems = <<>>
    /\ bodyIdx = 0

OutsideReplacement ==
    <<errors, node, itemsToIgnore, visitIdx, run, firstResult, varsArgDefault, varsParse,
      varsSections, varsArgLines, varsDocstring, varsType>>

\* lines 121-123: the file is parsed, fileProblems is bound; class_problems
\* is not
CheckOpen ==
    /\ pc = "call"
    /\ fileProblems' = <<>>
    /\ bodyIdx' = 1
    /\ pc' = "classes"
    /\ UNCHANGED <<raised, result, tree, ignoreFile, class_problems, OutsideReplacement>>

\* lines 126-132: one iteration of the loop over the classes
CheckClass ==
    /\ pc = "classes"
    /\ bodyIdx <= Len(tree)
    /\ IF tree[bodyIdx].decl.t # "ClassDef"
       THEN UNCHANGED <<class_problems, fileProblems>>
       ELSE \E problems \in {identify_class_problems(create_class_summary(tree[bodyIdx]),
                                                     load_items_to_ignore(ignoreFile))} :
                /\ class_problems' = problems
                /\ fileProblems' =
                       IF problems = <<>> THEN fileProblems
                       ELSE Append(fileProblems,
                                   EntryLines(Header("Class", tree[bodyIdx].decl.name,
                                                     tree[bodyIdx].decl.lineno),
                                              problems))
    /\ bodyIdx' = bodyIdx + 1
    /\ UNCHANGED <<pc, raised, result, tree, ignoreFile, OutsideReplacement>>

\* line 126: the loop over the classes is exhausted
ClassesDone ==
    /\ pc = "classes"
    /\ bodyIdx > Len(tree)
    /\ bodyIdx' = 1
    /\ pc' = "functions"
    /\ UNCHANGED <<raised, result, tree, ignoreFile, class_problems, fileProblems,
                   OutsideReplacement>>

\* lines 135-143: one iteration of the loop over the functions; line 143
\* reads class_problems, and the read of an unbound local raises
CheckFunction ==
    /\ pc = "functions"
    /\ bodyIdx <= Len(tree)
    /\ IF tree[bodyIdx].decl.t # "FunctionDef"
       THEN /\ bodyIdx' = bodyIdx + 1
            /\ UNCHANGED <<pc, raised, fileProblems>>
       ELSE \E func_problems \in
                   {identify_func_problems(create_function_summary(tree[bodyIdx]),
                                           load_items_to_ignore(ignoreFile))} :
                IF func_problems = <<>>
                THEN /\ bodyIdx' = bodyIdx + 1
                     /\ UNCHANGED <<pc, raised, fileProblems>>
                ELSE IF class_problems = Unbound
                THEN /\ raised' = TRUE
                     /\ pc' = "raised"
                     /\ UNCHANGED <<bodyIdx, fileProblems>>
                ELSE /\ fileProblems' =
                            Append(fileProblems,
                                   EntryLines(Header("Function", tree[bodyIdx].decl.name,
                                                     tree[bodyIdx].decl.lineno),
                                              class_problems))
                     /\ bodyIdx' = bodyIdx + 1
                     /\ UNCHANGED <<pc, raised>>
    /\ UNCHANGED <<result, tree, ignoreFile, class_problems, OutsideReplacement>>

\* line 135: the loop over the functions is exhausted
FunctionsDone ==
    /\ pc = "functions"
    /\ bodyIdx > Len(tree)
    /\ bodyIdx' = 1
    /\ pc' = "variables"
    /\ UNCHANGED <<raised, result, tree, ignoreFile, class_problems, fileProblems,
                   OutsideReplacement>>

\* lines 150-154: the loop over node.targets, from target k on
RECURSIVE TargetProblems(_, _, _)
TargetProblems(n, ignored, k) ==
    IF k > Len(n.targets) THEN <<>>
    ELSE (IF n.targets[k].t # "Name" THEN <<>>
          ELSE IF is_valid_format(n.targets[k].id, FALSE, ignored) THEN <<>>
          ELSE << <<Header("Variable", n.targets[k].id, n.lineno)>> >>)
         \o TargetProblems(n, ignored, k + 1)

\* lines 146-154: one iteration of the loop over the nodes of the tree
CheckVariable ==
    /\ pc = "variables"
    /\ bodyIdx <= Len(tree)
    /\ fileProblems' =
           IF tree[bodyIdx].decl.t # "Assign" THEN fileProblems
           ELSE fileProblems
                \o TargetProblems(tree[bodyIdx].decl, load_items_to_ignore(ignoreFile), 1)
    /\ bodyIdx' = bodyIdx + 1
    /\ UNCHANGED <<pc, raised, result, tree, ignoreFile, class_problems,
                   OutsideReplacement>>

\* line 155
CheckReturn ==
    /\ pc = "variables"
    /\ bodyIdx > Len(tree)
    /\ result' = PyList(fileProblems)
    /\ pc' = "returned"
    /\ UNCHANGED <<raised, tree, ignoreFile, class_problems, fileProblems, bodyIdx,
                   OutsideReplacement>>

NextReplacement ==
    \/ CheckOpen
    \/ CheckClass
    \/ ClassesDone
    \/ CheckFunction
    \/ FunctionsDone
    \/ CheckVariable
    \/ CheckReturn

SpecReplacement == InitReplacement /\ [][NextReplacement]_vars

-----------------------------------------------------------------------------
(* Properties of check_file *)

\* the problems identify_func_problems finds for the k-th statement
OwnProblems(k) ==
    identify_func_problems(create_function_summary(tree[k]),
                           load_items_to_ignore(ignoreFile))

HasProblems(k) == tree[k].decl.t = "FunctionDef" /\ OwnProblems(k) # <<>>

\* C17 (as claimed): when check_file has ended, every top-level function that
\* has at least one problem has its entry "Function <name> on line <n>:" in
\* fileProblems, and the entry lists exactly the function's own problems,
\* whatever classes the earlier loop processed and also when it processed none.
C17_FunctionEntryListsOwnProblems ==
    pc \in {"returned", "raised"} =>
        \A k \in 1..Len(tree) :
            HasProblems(k) =>
                \E q \in 1..Len(fileProblems) :
                    fileProblems[q] =
                        EntryLines(Header("Function", tree[k].decl.name, k), OwnProblems(k))

-----------------------------------------------------------------------------
(* Termination of the loop of _parseArgLines *)

\* a step of the call is enabled in every state but the ones with pc = "done":
\* ParseEnter needs pc = "call", and at pc = "loop" the guards of ParseIterate
\* and ParseReturn are complementary
CallEnded == pc = "done"

\* the scheduling of a call: a step that can be taken is taken. This is
\* WF_vars(NextParse), []<>(~ENABLED <<NextParse>>_vars) \/ []<><<NextParse>>_vars,
\* with the enabling condition written out
SpecParseLive == SpecParse /\ ([]<>CallEnded \/ []<><<NextParse>>_vars)

\* the loop condition of line 343 holds: the next step is an iteration
IterationStarts == pc = "loop" /\ index < Len(splitArgsSection)

\* C18: the loop of _parseArgLines terminates. An iteration either rejects the
\* section, which ends the call with None, or ends with the line index at
\* least 1 greater; the index never exceeds the number of lines; an iteration
\* that does not reject starts on a line that contains "):"; and every call
\* ends.
C18_ParseLoopTerminates ==
    /\ [][IterationStarts =>
             \/ pc' = "done" /\ result' = None
             \/ /\ pc' = "loop"
                /\ index' >= index + 1
                /\ index' <= Len(splitArgsSection)
                /\ Contains(splitArgsSection[index + 1], CloseParenColon)]_vars
    /\ [](index <= Len(splitArgsSection))
    /\ <>(pc = "done")

\* a call that ran two iterations, the first over an entry of two lines, and
\* left the loop with the index at the number of lines
C18_Witness ==
    /\ pc = "done"
    /\ result # None
    /\ Len(splitArgsSection) = 4
    /\ index = Len(splitArgsSection)
    /\ Len(argLines) = 2
    /\ ~Contains(splitArgsSection[3], CloseParenColon)

====
